---- MODULE Spec2Model ----
(***************************************************************************)
(* AgentMesh registry core: the agent directory with its three indexes,   *)
(* the trust manager, the federation merge and the proof-of-work manager. *)
(*                                                                         *)
(* Conventions.                                                            *)
(*  - Scores are fixed-point numbers, 1000000 units = 1.0.  A product      *)
(*    with a fraction is truncated towards zero (TruncDiv).               *)
(*  - Time is in seconds; the clock `now` advances by the steps of         *)
(*    TickSteps.                                                           *)
(*  - The code runs on one asyncio event loop; a handler that holds a      *)
(*    lock for its whole body is one atomic action.  A lock that is held   *)
(*    when an action ends is held by a task that waits for ever.           *)
(*  - Dictionaries are functions whose DOMAIN is the set of keys.          *)
(*  - update_agent assigns the values of AgentCardUpdate.model_dump() to   *)
(*    the card with setattr; AgentCard does not validate assignments, so   *)
(*    a patched `skills` is a list of plain dicts afterwards               *)
(*    (skills_parsed = FALSE) and `skill.name` raises AttributeError.      *)
(***************************************************************************)
EXTENDS Integers, Sequences, FiniteSets, TLC

VARIABLES
    agents,           \* AgentRegistry.agents: id -> card
    skill_index,      \* AgentRegistry.skill_index: skill name -> set of ids
    protocol_index,   \* AgentRegistry.protocol_index
    tag_index,        \* AgentRegistry.tag_index
    storage,          \* the storage backend: id -> stored card
    search_cache,     \* AgentRegistry._search_cache: set of cached query keys
    state_lock,       \* AgentRegistry._state_lock
    scores,           \* TrustManager.scores
    pending_updates,  \* TrustManager.pending_updates
    event_counts,     \* TrustManager.event_counts
    peer_history,     \* TrustManager.peer_history
    trust_lock,       \* TrustManager._lock
    bonus_tasks,      \* tasks created for _award_referral_bonus, not yet run
    peers,            \* FederationManager.peers
    challenges,       \* PoWManager._challenges: nonce -> issue time
    issued,           \* number of nonces issued so far (nonces are fresh)
    accepted,         \* observer: nonce -> number of verifications that returned True
    sessions,         \* NegotiationManager.sessions: session id -> session
    session_count,    \* number of sessions created so far (ids are fresh)
    limits,           \* id -> the card's concurrency_limit and qps_budget
    concurrency,      \* AgentRateLimiter._concurrency
    qps_state,        \* AgentRateLimiter._qps_state: id -> <<last_refill, tokens>>
    inflight,         \* observer: id -> invocations inside the limit context
    now,              \* wall clock, seconds
    ticks,            \* number of clock steps taken
    calls,            \* handlers suspended at an await: call -> its local variables
    remote,           \* a second node: its registry and trust manager as one value
    last              \* the last call: operation, arguments, outcome

vars == <<agents, skill_index, protocol_index, tag_index, storage, search_cache,
          state_lock, scores, pending_updates, event_counts, peer_history,
          trust_lock, bonus_tasks, peers, challenges, issued, accepted,
          sessions, session_count, limits, concurrency, qps_state, inflight,
          now, ticks, calls, remote, last>>

----------------------------------------------------------------------------
(* Bounds of the model *)

\* clock steps of the proof-of-work, federation and referral behaviours
MaxTicks == 2
\* events recorded for one agent in the trust behaviours
MaxEvents == 2
\* events recorded for the referred agent
MaxSuccess == 6
\* challenges issued
MaxNonces == 2
\* decay steps counted for one agent
MaxDecay == 2
\* events recorded for one agent in the federation behaviours
MaxUpdates == 2
\* clock steps of the directory behaviours
MaxDirTicks == 1
\* events recorded for one agent in the directory behaviours
MaxDirEvents == 1
\* clock steps of the trust behaviours
MaxTrustTicks == 1

----------------------------------------------------------------------------
(* Program constants *)

NoScore == -1
NoTime == -1

initial_score == 500000
min_score == 0
max_score == 1000000
decay_interval == 60
decay_target == 500000
decay_percent == 1
decay_skip_below == 1000
update_threshold == 100
lazy_pending_threshold == 10000
window_size == 3600
referral_threshold == 5

W_SUCCESS == 50000
W_FAILURE == -100000
W_TIMEOUT == -50000
W_BAD_SIGNATURE == -200000
W_RATE_LIMIT == -20000
W_HEARTBEAT == 10
W_INVOCATION == 10000
W_PROFILE_UPDATE == 50000

difficulty == 4
ttl_seconds == 60

None == "None"
AgentIds == {"a1", "a2"}
SkillOrder == <<"s1", "s2">>
TickSteps == {30, 60, 3600}

EmptyMap == [x \in {} |-> 0]

Put(f, k, v) == [x \in DOMAIN f \cup {k} |-> IF x = k THEN v ELSE f[x]]
Drop(f, k) == [x \in DOMAIN f \ {k} |-> f[x]]
Range(s) == {s[i] : i \in DOMAIN s}
Abs(x) == IF x < 0 THEN -x ELSE x
TruncDiv(a, b) == IF a >= 0 THEN a \div b ELSE -((-a) \div b)
Clamp(x) == IF x < min_score THEN min_score ELSE IF x > max_score THEN max_score ELSE x

----------------------------------------------------------------------------
(* Agent cards *)

SkillNamesOf(skills) == {skills[i].name : i \in DOMAIN skills}

\* sorted(skills_data, key=name): the skills in name order (names are unique
\* in a validated card)
SortByName(skills) ==
    LET present == SelectSeq(SkillOrder, LAMBDA n : n \in SkillNamesOf(skills))
    IN  [i \in DOMAIN present |-> CHOOSE s \in Range(skills) : s.name = present[i]]

\* sha256 over the JSON of the sorted skills: injective on the sorted list
SpeciesHash(skills) == <<"sha256", SortByName(skills)>>


\* What a storage backend hands back: the card serialised and parsed again
StoredForm(rec) == [rec EXCEPT !.skills_parsed = TRUE]

----------------------------------------------------------------------------
(* The mutable state of registry and trust manager as one value, so that a
   handler can be written as a function from state to state *)

Cur ==
    [agents |-> agents, skill_index |-> skill_index, protocol_index |-> protocol_index,
     tag_index |-> tag_index, storage |-> storage, search_cache |-> search_cache,
     state_lock |-> state_lock, scores |-> scores, pending_updates |-> pending_updates,
     event_counts |-> event_counts, peer_history |-> peer_history,
     trust_lock |-> trust_lock, bonus_tasks |-> bonus_tasks]

\* registry and trust manager after construction
FreshNode ==
    [agents |-> EmptyMap, skill_index |-> EmptyMap, protocol_index |-> EmptyMap,
     tag_index |-> EmptyMap, storage |-> EmptyMap, search_cache |-> {},
     state_lock |-> "free", scores |-> EmptyMap, pending_updates |-> EmptyMap,
     event_counts |-> EmptyMap, peer_history |-> EmptyMap,
     trust_lock |-> "free", bonus_tasks |-> <<>>]

Commit(st) ==
    /\ agents' = st.agents
    /\ skill_index' = st.skill_index
    /\ protocol_index' = st.protocol_index
    /\ tag_index' = st.tag_index
    /\ storage' = st.storage
    /\ search_cache' = st.search_cache
    /\ state_lock' = st.state_lock
    /\ scores' = st.scores
    /\ pending_updates' = st.pending_updates
    /\ event_counts' = st.event_counts
    /\ peer_history' = st.peer_history
    /\ trust_lock' = st.trust_lock
    /\ bonus_tasks' = st.bonus_tasks

Ok(st) == [st |-> st, err |-> "ok"]
Fail(st, e) == [st |-> st, err |-> e]

----------------------------------------------------------------------------
(* Indexes *)

IndexAddAll(idx, keys, id) ==
    [k \in DOMAIN idx \cup keys |->
        (IF k \in DOMAIN idx THEN idx[k] ELSE {}) \cup (IF k \in keys THEN {id} ELSE {})]

IndexDiscardAll(idx, keys, id) ==
    [k \in {x \in DOMAIN idx : x \notin keys \/ idx[x] \ {id} # {}} |->
        IF k \in keys THEN idx[k] \ {id} ELSE idx[k]]

\* `for skill in agent_card.skills: skill.name` raises on a list of dicts
SkillsReadable(rec) == rec.skills_parsed \/ Len(rec.skills) = 0

\* AgentRegistry._update_indexes; the caller has checked SkillsReadable
UpdateIndexes(st, id, rec) ==
    [st EXCEPT !.skill_index = IndexAddAll(@, SkillNamesOf(rec.skills), id),
               !.protocol_index = IndexAddAll(@, {rec.protocol}, id),
               !.tag_index = IndexAddAll(@, rec.tags, id)]

\* AgentRegistry._remove_from_indexes; the caller has checked SkillsReadable
RemoveFromIndexes(st, id, rec) ==
    [st EXCEPT !.skill_index = IndexDiscardAll(@, SkillNamesOf(rec.skills), id),
               !.protocol_index = IndexDiscardAll(@, {rec.protocol}, id),
               !.tag_index = IndexDiscardAll(@, rec.tags, id)]

\* AgentRegistry._rebuild_indexes over the parsed cards of `m`
\* the keys under which an index of the given kind lists a card
KeysOf(rec, kind) ==
    CASE kind = "skill" -> SkillNamesOf(rec.skills)
      [] kind = "protocol" -> {rec.protocol}
      [] kind = "tag" -> rec.tags

RebuildIndex(m, kind) ==
    LET keys == UNION {KeysOf(m[a], kind) : a \in DOMAIN m}
    IN  [k \in keys |-> {a \in DOMAIN m : k \in KeysOf(m[a], kind)}]

----------------------------------------------------------------------------
(* AgentRegistry.get_agent: the map, else the storage fallback, which puts
   the stored card into the map and the indexes *)

GetAgentOp(st, id) ==
    IF id \in DOMAIN st.agents THEN [st |-> st, found |-> TRUE]
    ELSE IF id \in DOMAIN st.storage
         THEN LET rec == st.storage[id]
                  s1 == UpdateIndexes([st EXCEPT !.agents = Put(@, id, rec)], id, rec)
              IN  [st |-> [s1 EXCEPT !.search_cache = {}], found |-> TRUE]
         ELSE [st |-> st, found |-> FALSE]

----------------------------------------------------------------------------
(* TrustManager.record_event, lines 101-169: seed, count, dampen, clamp *)

Weight(ev) ==
    CASE ev = "success" -> W_SUCCESS
      [] ev = "failure" -> W_FAILURE
      [] ev = "timeout" -> W_TIMEOUT
      [] ev = "bad_sig" -> W_BAD_SIGNATURE
      [] ev = "rate_limit" -> W_RATE_LIMIT
      [] ev = "heartbeat" -> W_HEARTBEAT
      [] ev = "invocation" -> W_INVOCATION
      [] ev = "profile_update" -> W_PROFILE_UPDATE
      [] OTHER -> 0

RECURSIVE Pow2(_)
Pow2(n) == IF n = 0 THEN 1 ELSE 2 * Pow2(n - 1)

CountOf(counts, id, ev) ==
    IF id \in DOMAIN counts /\ ev \in DOMAIN counts[id] THEN counts[id][ev] ELSE 0

BumpCount(counts, id, ev) ==
    LET mine == IF id \in DOMAIN counts THEN counts[id] ELSE EmptyMap
    IN  Put(counts, id, Put(mine, ev, CountOf(counts, id, ev) + 1))

\* the entries of the trailing window
InWindow(hist, t) == SelectSeq(hist, LAMBDA e : t - e[2] < window_size)

SamePeerCount(hist, src) == Len(SelectSeq(hist, LAMBDA e : e[1] = src))

\* a discount that grows with the count instead of doubling
DampenedLinear(delta, count) == delta \div (count + 1)

\* delta *= 1.0 / 2 ** same_peer_count
Dampened(delta, count) == IF count > 0 THEN delta \div Pow2(count) ELSE delta

\* max(min_score, min(max_score, current + delta))
NewScore(current, delta) == Clamp(current + delta)

\* `abs(new_score - current) > 0.0001`
Significant(new, current) == Abs(new - current) > update_threshold

SeedScore(st, id) ==
    LET g == GetAgentOp(st, id)
    IN  IF g.found /\ g.st.agents[id].trust_score # NoScore
        THEN g.st.agents[id].trust_score
        ELSE initial_score

RecordEventCore(st, id, ev, src, t) ==
    LET known == id \in DOMAIN st.scores
        s0 == IF known THEN st ELSE GetAgentOp(st, id).st
        current == IF known THEN st.scores[id] ELSE SeedScore(st, id)
        s1 == [s0 EXCEPT !.scores = Put(@, id, current),
                         !.event_counts = BumpCount(@, id, ev)]
        base == Weight(ev)
        dampen == src # None /\ src # id /\ base > 0
        hist == IF id \in DOMAIN s1.peer_history THEN s1.peer_history[id] ELSE <<>>
        window == InWindow(hist, t)
        delta == IF dampen THEN Dampened(base, SamePeerCount(window, src)) ELSE base
        s2 == IF dampen
              THEN [s1 EXCEPT !.peer_history = Put(@, id, Append(window, <<src, t>>))]
              ELSE s1
        new == NewScore(current, delta)
    IN  [st |-> IF Significant(new, current)
                THEN [s2 EXCEPT !.scores = Put(@, id, new),
                                !.pending_updates = Put(@, id, new)]
                ELSE s2,
         delta |-> delta]

----------------------------------------------------------------------------
(* AgentRegistry.update_agent.  A patch is [set |-> the fields it carries,
   and a value for each field]. *)


\* setattr(agent_card, field, value) for every field of model_dump(exclude_none=True)
SetAttr(rec, patch, f) == IF f \in patch.set THEN [rec EXCEPT ![f] = patch[f]] ELSE rec

\* an assignment that validates: the skills stay Skill objects
KeepsParsed(rec, patch) == rec

\* a skills value assigned by setattr is a list of dicts
DictSkills(rec, patch) ==
    IF "skills" \in patch.set THEN [rec EXCEPT !.skills_parsed = FALSE] ELSE rec

\* an update that replaces the record: tags the patch lacks are reset
ApplyPatchResetsTags(rec, patch) ==
    DictSkills(
        [SetAttr(SetAttr(SetAttr(SetAttr(SetAttr(SetAttr(SetAttr(rec,
            patch, "name"), patch, "skills"), patch, "protocol"),
            patch, "trust_score"), patch, "referral_paid"), patch, "signature"),
            patch, "health_status")
            EXCEPT !.tags = IF "tags" \in patch.set THEN patch.tags ELSE {}],
        patch)

ApplyPatch(rec, patch) ==
    DictSkills(
        SetAttr(SetAttr(SetAttr(SetAttr(SetAttr(SetAttr(SetAttr(SetAttr(rec,
            patch, "name"), patch, "skills"), patch, "protocol"), patch, "tags"),
            patch, "trust_score"), patch, "referral_paid"), patch, "signature"),
            patch, "health_status"),
        patch)

UpdateAgentOp(st, id, patch, t) ==
    IF id \notin DOMAIN st.agents THEN Fail(st, "ValueError")
    ELSE IF ~SkillsReadable(st.agents[id]) THEN Fail(st, "AttributeError")
    ELSE
      LET old == st.agents[id]
          s1 == RemoveFromIndexes(st, id, old)
          rec == [ApplyPatch(old, patch) EXCEPT !.updated_at = t]
          s2 == [s1 EXCEPT !.agents = Put(@, id, rec)]
      IN  IF ~SkillsReadable(rec) THEN Fail(s2, "AttributeError")
          ELSE
            LET s3 == UpdateIndexes(s2, id, rec)
                s4 == [s3 EXCEPT !.storage = Put(@, id, StoredForm(rec))]
            IN  IF s4.trust_lock = "held"
                THEN \* record_event waits for a lock its own caller holds
                     Fail([s4 EXCEPT !.state_lock = "held"], "blocked")
                ELSE Ok([RecordEventCore(s4, id, "profile_update", None, t).st
                            EXCEPT !.search_cache = {}])

----------------------------------------------------------------------------
(* TrustManager.record_event, whole: the score update, then the referral
   check of lines 171-195, made while the trust lock is held *)

\* lines 186-192: the flag is set through update_agent while the trust lock
\* is held; the bonus task is created once update_agent has returned
PayReferral(upd, referrer) ==
    IF upd.err = "blocked" THEN upd.st
    ELSE IF upd.err = "ok"
         THEN [upd.st EXCEPT !.trust_lock = "free", !.bonus_tasks = Append(@, referrer)]
         ELSE [upd.st EXCEPT !.trust_lock = "free"]

\* lines 179-182
ReferralDue(st, id) ==
    /\ st.agents[id].referrer_id # None
    /\ ~st.agents[id].referral_paid
    /\ CountOf(st.event_counts, id, "success") >= referral_threshold

\* lines 178-195, g the outcome of registry.get_agent
ReferralCheck(g, id, t) ==
    IF ~g.found THEN g.st
    ELSE IF ~ReferralDue(g.st, id) THEN g.st
    ELSE PayReferral(UpdateAgentOp([g.st EXCEPT !.trust_lock = "held"], id,
                                   [set |-> {"referral_paid"}, referral_paid |-> TRUE], t),
                     g.st.agents[id].referrer_id)

\* lines 171-173, core the outcome of the score update
AfterScoreUpdate(core, id, ev, t) ==
    IF ~(ev = "success" /\ core.delta > 0) THEN core.st
    ELSE ReferralCheck(GetAgentOp(core.st, id), id, t)

RecordEventOp(st, id, ev, src, t) ==
    AfterScoreUpdate(RecordEventCore(st, id, ev, src, t), id, ev, t)

----------------------------------------------------------------------------
(* TrustManager: decay loop, lazy read, flush *)

\* one agent's step of _decay_loop: the new score, or the old one when the
\* step is skipped
DecayStep(current) ==
    LET diff == decay_target - current
        change == TruncDiv(diff * decay_percent, 100)
        new == Clamp(current + change)
    IN  IF Abs(diff) < decay_skip_below THEN current
        ELSE IF Significant(new, current) THEN new
        ELSE current

DecayOp(st) ==
    LET moved == {a \in DOMAIN st.scores : DecayStep(st.scores[a]) # st.scores[a]}
    IN  [st EXCEPT
            !.scores = [a \in DOMAIN @ |-> DecayStep(@[a])],
            !.pending_updates =
                [a \in DOMAIN @ \cup moved |->
                    IF a \in moved THEN DecayStep(st.scores[a]) ELSE @[a]],
            !.event_counts =
                [a \in DOMAIN @ \cup moved |->
                    IF a \in moved THEN BumpCount(st.event_counts, a, "decay")[a] ELSE @[a]]]

\* (x - target) * (1 - decay_factor) ** n, one factor at a time
RECURSIVE DecayPow(_, _)
DecayPow(x, n) == IF n = 0 THEN x ELSE DecayPow(TruncDiv(x * (100 - decay_percent), 100), n - 1)

LazyDecayed(current, intervals) ==
    Clamp(decay_target + DecayPow(current - decay_target, intervals))

\* TrustManager.get_score: [st, value]
GetScoreOp(st, id, t) ==
    IF id \in DOMAIN st.scores THEN [st |-> st, value |-> st.scores[id]]
    ELSE
      LET g == GetAgentOp(st, id) IN
      IF ~g.found THEN [st |-> g.st, value |-> initial_score]
      ELSE
        LET rec == g.st.agents[id]
            current == IF rec.trust_score # NoScore THEN rec.trust_score ELSE initial_score
            intervals == TruncDiv(t - rec.updated_at, decay_interval)
            decayed == LazyDecayed(current, intervals)
        IN  IF intervals > 0
            THEN [st |-> [g.st EXCEPT
                             !.scores = Put(@, id, decayed),
                             !.pending_updates =
                                 IF Abs(decayed - current) > lazy_pending_threshold
                                 THEN Put(@, id, decayed) ELSE @],
                  value |-> decayed]
            ELSE [st |-> [g.st EXCEPT !.scores = Put(@, id, current)], value |-> current]

\* TrustManager.flush: update_agent(trust_score=score) for every pending id,
\* an error of one update is logged and the loop goes on
RECURSIVE FlushLoop(_, _, _, _)
FlushLoop(st, updates, todo, t) ==
    IF todo = {} THEN st
    ELSE LET a == CHOOSE x \in todo : TRUE
             r == UpdateAgentOp(st, a, [set |-> {"trust_score"}, trust_score |-> updates[a]], t)
         IN  FlushLoop(r.st, updates, todo \ {a}, t)

FlushOp(st, t) ==
    IF DOMAIN st.pending_updates = {} THEN st
    ELSE FlushLoop([st EXCEPT !.pending_updates = EmptyMap],
                   st.pending_updates, DOMAIN st.pending_updates, t)

----------------------------------------------------------------------------
(* AgentRegistry: register, claim, deregister, heartbeat, storage sync *)

\* AgentCard as parsed from a payload, before registration
NewCard(name, skills, protocol, tags, owner_id, claim_code, referrer_id, trust_score, signature, updated_at) ==
    [name |-> name, skills |-> skills, skills_parsed |-> TRUE, protocol |-> protocol,
     tags |-> tags, owner_id |-> owner_id, claim_code |-> claim_code,
     species_id |-> None, referrer_id |-> referrer_id, referral_paid |-> FALSE,
     trust_score |-> trust_score, signature |-> signature, health_status |-> "unknown",
     last_health_check |-> NoTime, last_heartbeat |-> NoTime,
     created_at |-> updated_at, updated_at |-> updated_at]

\* `code` is the claim code the registry draws for an ownerless card
RegisterAgentOp(st, id, card, code, t) ==
    IF Len(card.skills) = 0 THEN Fail(st, "ValueError")
    ELSE IF card.signature = "invalid" THEN Fail(st, "SecurityError")
    ELSE IF id \in DOMAIN st.agents THEN Fail(st, "ValueError")
    ELSE
      LET rec == [card EXCEPT
                     !.species_id = SpeciesHash(card.skills),
                     !.claim_code = IF card.owner_id = None THEN code ELSE @,
                     !.created_at = t,
                     !.updated_at = t]
          s1 == UpdateIndexes([st EXCEPT !.agents = Put(@, id, rec)], id, rec)
      IN  Ok([s1 EXCEPT !.storage = Put(@, id, StoredForm(rec)), !.search_cache = {}])

\* claim_agent without the check that the record has an owner already
ClaimAgentIgnoresOwner(st, id, code, owner, t) ==
    IF id \notin DOMAIN st.agents THEN Fail(st, "ValueError")
    ELSE IF st.agents[id].claim_code = None \/ st.agents[id].claim_code # code
         THEN Fail(st, "ValueError")
    ELSE
      LET rec == [st.agents[id] EXCEPT !.owner_id = owner, !.claim_code = None,
                                       !.updated_at = t]
      IN  Ok([st EXCEPT !.agents = Put(@, id, rec),
                        !.storage = Put(@, id, StoredForm(rec)),
                        !.search_cache = {}])

ClaimAgentOp(st, id, code, owner, t) ==
    IF id \notin DOMAIN st.agents THEN Fail(st, "ValueError")
    ELSE IF st.agents[id].owner_id # None THEN Fail(st, "ValueError")
    ELSE IF st.agents[id].claim_code = None \/ st.agents[id].claim_code # code
         THEN Fail(st, "ValueError")
    ELSE
      LET rec == [st.agents[id] EXCEPT !.owner_id = owner, !.claim_code = None,
                                       !.updated_at = t]
      IN  Ok([st EXCEPT !.agents = Put(@, id, rec),
                        !.storage = Put(@, id, StoredForm(rec)),
                        !.search_cache = {}])

DeregisterAgentOp(st, id) ==
    IF id \notin DOMAIN st.agents THEN Fail(st, "False")
    ELSE IF ~SkillsReadable(st.agents[id]) THEN Fail(st, "AttributeError")
    ELSE
      LET s1 == RemoveFromIndexes(st, id, st.agents[id])
      IN  Ok([s1 EXCEPT !.agents = Drop(@, id), !.storage = Drop(@, id),
                        !.search_cache = {}])

\* the card after a heartbeat
Beat(rec, status, t) ==
    [rec EXCEPT !.health_status = status, !.last_health_check = t,
                !.last_heartbeat = t, !.updated_at = t]

\* lines 711-729: the card is stamped and stored, then the event is recorded
HeartbeatFound(st, id, status, t) ==
    RecordEventOp([st EXCEPT !.agents = Put(@, id, Beat(@[id], status, t)),
                             !.storage = Put(@, id, StoredForm(Beat(st.agents[id], status, t)))],
                  id, "heartbeat", None, t)

HeartbeatOp(st, id, status, t) ==
    IF ~GetAgentOp(st, id).found THEN Fail(GetAgentOp(st, id).st, "ValueError")
    ELSE Ok(HeartbeatFound(GetAgentOp(st, id).st, id, status, t))

\* AgentRegistry._snapshot
Snapshot(m) == [a \in DOMAIN m |-> m[a].updated_at]

\* AgentRegistry._sync_from_storage(force=False)
SyncFromStorageOp(st) ==
    IF Snapshot(st.agents) = Snapshot(st.storage) THEN Fail(st, "False")
    ELSE Ok([st EXCEPT
                !.agents = st.storage,
                !.skill_index = RebuildIndex(st.storage, "skill"),
                !.protocol_index = RebuildIndex(st.storage, "protocol"),
                !.tag_index = RebuildIndex(st.storage, "tag"),
                !.search_cache = {}])

----------------------------------------------------------------------------
(* FederationManager._process_sync_data for one incoming card *)

\* fields of the incoming card that AgentCardUpdate (extra="forbid") rejects
ForbiddenExtra(card) ==
    \/ card.owner_id # None \/ card.referrer_id # None
    \/ card.last_heartbeat # NoTime \/ card.last_health_check # NoTime

\* card.model_dump(exclude={trust_score, created_at, updated_at, id, claim_code,
\* species_id}, exclude_none=True) as an AgentCardUpdate
FederationPatch(card) ==
    [set |-> {"name", "skills", "protocol", "referral_paid", "health_status"}
                \cup (IF card.tags # {} THEN {"tags"} ELSE {})
                \cup (IF card.signature # "none" THEN {"signature"} ELSE {}),
     name |-> card.name, skills |-> card.skills, protocol |-> card.protocol,
     tags |-> card.tags, referral_paid |-> card.referral_paid,
     signature |-> card.signature, health_status |-> card.health_status]

\* the comparison with >= in place of >
IncomingIsNewerOrEqual(incoming_ts, local_ts) == incoming_ts >= local_ts

\* `card.updated_at > existing.updated_at`
IncomingIsNewer(incoming_ts, local_ts) == incoming_ts > local_ts

MergeAgentOp(st, id, card, code, t) ==
    IF card.signature = "invalid" THEN Fail(st, "skipped")
    ELSE
      LET g == GetAgentOp(st, id) IN
      IF ~g.found
      THEN LET r == RegisterAgentOp(g.st, id, card, code, t)
           IN  IF r.err = "ok" THEN [st |-> r.st, err |-> "registered"]
               ELSE Fail(r.st, "skipped")
      ELSE IF ~IncomingIsNewer(card.updated_at, g.st.agents[id].updated_at)
           THEN Fail(g.st, "not newer")
      ELSE IF ForbiddenExtra(card) THEN Fail(g.st, "ValidationError")
      ELSE LET r == UpdateAgentOp(g.st, id, FederationPatch(card), t)
           IN  IF r.err = "ok" THEN [st |-> r.st, err |-> "updated"] ELSE r

----------------------------------------------------------------------------
(* PoWManager *)

Expired(issued_at, t) == t - issued_at > ttl_seconds

\* PoWManager._cleanup
Cleanup(ch, t) == [n \in {x \in DOMAIN ch : ~Expired(ch[x], t)} |-> ch[n]]

\* number of leading zero hex digits of sha256(nonce + solution): a fixed
\* function of the pair, here a table with digests of 3, 4 and 5 zeros
LeadingZeros(nonce, solution) == 3 + ((nonce + solution) % 3)

DigestOk(nonce, solution) == LeadingZeros(nonce, solution) >= difficulty

\* verify_solution that forgets to consume the nonce
VerifySolutionKeepsNonce(ch, nonce, solution, t) ==
    IF nonce \notin DOMAIN ch THEN [ch |-> ch, result |-> FALSE]
    ELSE IF Expired(ch[nonce], t) THEN [ch |-> Drop(ch, nonce), result |-> FALSE]
    ELSE [ch |-> ch, result |-> DigestOk(nonce, solution)]

\* PoWManager.verify_solution: [challenges, result]
VerifySolutionOp(ch, nonce, solution, t) ==
    IF nonce \notin DOMAIN ch THEN [ch |-> ch, result |-> FALSE]
    ELSE IF Expired(ch[nonce], t) THEN [ch |-> Drop(ch, nonce), result |-> FALSE]
    ELSE IF DigestOk(nonce, solution) THEN [ch |-> Drop(ch, nonce), result |-> TRUE]
    ELSE [ch |-> ch, result |-> FALSE]

----------------------------------------------------------------------------
(* Actions *)

Call(op, id, err, arg) == [op |-> op, id |-> id, err |-> err, arg |-> arg]

regVars == <<agents, skill_index, protocol_index, tag_index, storage, search_cache,
             state_lock, scores, pending_updates, event_counts, peer_history,
             trust_lock, bonus_tasks>>
powVars == <<challenges, issued, accepted>>
negVars == <<sessions, session_count>>
limitVars == <<limits, concurrency, qps_state, inflight>>
sideVars == <<negVars, limitVars>>

LocksFree == state_lock = "free" /\ trust_lock = "free"

\* events recorded for `id`, decay steps aside: what the guards cap
EventTotal(id) ==
    LET c == IF id \in DOMAIN event_counts THEN event_counts[id] ELSE EmptyMap
        RECURSIVE Sum(_)
        Sum(S) == IF S = {} THEN 0 ELSE LET k == CHOOSE x \in S : TRUE IN c[k] + Sum(S \ {k})
    IN  Sum(DOMAIN c \ {"decay"})

\* a handler's outcome r = [st, err] takes effect and is noted in `last`
Apply(r, op, id, arg) == Commit(r.st) /\ last' = Call(op, id, r.err, arg)

Register(id, card, code) ==
    /\ LocksFree
    /\ Apply(RegisterAgentOp(Cur, id, card, code, now), "register", id, card)
    /\ UNCHANGED <<remote, calls, peers, powVars, sideVars, now, ticks>>

Claim(id, code, owner) ==
    /\ LocksFree
    /\ Apply(ClaimAgentOp(Cur, id, code, owner, now), "claim", id, code)
    /\ UNCHANGED <<remote, calls, peers, powVars, sideVars, now, ticks>>

Deregister(id) ==
    /\ LocksFree
    /\ Apply(DeregisterAgentOp(Cur, id), "deregister", id, None)
    /\ UNCHANGED <<remote, calls, peers, powVars, sideVars, now, ticks>>

Update(id, patch, limit) ==
    /\ LocksFree
    /\ EventTotal(id) < limit
    /\ Apply(UpdateAgentOp(Cur, id, patch, now), "update", id, patch)
    /\ UNCHANGED <<remote, calls, peers, powVars, sideVars, now, ticks>>

Heartbeat(id, limit) ==
    /\ LocksFree
    /\ EventTotal(id) < limit
    /\ Apply(HeartbeatOp(Cur, id, "healthy", now), "heartbeat", id, None)
    /\ UNCHANGED <<remote, calls, peers, powVars, sideVars, now, ticks>>

StorageSync ==
    /\ LocksFree
    /\ Apply(SyncFromStorageOp(Cur), "sync_from_storage", None, None)
    /\ UNCHANGED <<remote, calls, peers, powVars, sideVars, now, ticks>>

ProcessSyncData(remote_peers, id, card, code, limit) ==
    /\ LocksFree
    /\ EventTotal(id) < limit
    /\ peers' = peers \cup remote_peers
    /\ Apply(MergeAgentOp(Cur, id, card, code, now), "process_sync_data", id, card)
    /\ UNCHANGED <<remote, calls, powVars, now, ticks, sideVars>>

RecordEvent(id, ev, src, limit) ==
    /\ LocksFree
    /\ EventTotal(id) < limit
    /\ Commit(RecordEventOp(Cur, id, ev, src, now))
    /\ last' = Call("record_event", id, ev, src)
    /\ UNCHANGED <<remote, calls, peers, powVars, sideVars, now, ticks>>

DecayTick ==
    /\ trust_lock = "free"
    /\ \A a \in DOMAIN scores : CountOf(event_counts, a, "decay") < MaxDecay
    /\ Commit(DecayOp(Cur))
    /\ last' = Call("decay", None, "ok", None)
    /\ UNCHANGED <<remote, calls, peers, powVars, sideVars, now, ticks>>

GetScore(id) ==
    /\ LocksFree
    /\ LET r == GetScoreOp(Cur, id, now)
       IN  Commit(r.st) /\ last' = Call("get_score", id, "ok", r.value)
    /\ UNCHANGED <<remote, calls, peers, powVars, sideVars, now, ticks>>

Flush ==
    /\ LocksFree
    /\ Commit(FlushOp(Cur, now))
    /\ last' = Call("flush", None, "ok", pending_updates)
    /\ UNCHANGED <<remote, calls, peers, powVars, sideVars, now, ticks>>

Tick(d, limit) ==
    /\ ticks < limit
    /\ now' = now + d
    /\ ticks' = ticks + 1
    /\ last' = Call("tick", None, "ok", d)
    /\ UNCHANGED <<remote, calls, regVars, peers, powVars, sideVars>>

CreateChallenge ==
    /\ issued < MaxNonces
    /\ issued' = issued + 1
    /\ challenges' = Cleanup(Put(challenges, issued + 1, now), now)
    /\ last' = Call("create_challenge", issued + 1, "ok", None)
    /\ UNCHANGED <<remote, calls, regVars, peers, accepted, now, ticks, sideVars>>

VerifySolution(nonce, solution) ==
    /\ LET r == VerifySolutionOp(challenges, nonce, solution, now)
       IN  /\ challenges' = r.ch
           /\ accepted' = IF r.result
                           THEN Put(accepted, nonce,
                                    (IF nonce \in DOMAIN accepted THEN accepted[nonce] ELSE 0) + 1)
                           ELSE accepted
           /\ last' = Call("verify_solution", nonce, IF r.result THEN "True" ELSE "False",
                           solution)
    /\ UNCHANGED <<remote, calls, regVars, peers, issued, now, ticks, sideVars>>

Init ==
    /\ agents = EmptyMap /\ skill_index = EmptyMap /\ protocol_index = EmptyMap
    /\ tag_index = EmptyMap /\ storage = EmptyMap /\ search_cache = {}
    /\ state_lock = "free" /\ scores = EmptyMap /\ pending_updates = EmptyMap
    /\ event_counts = EmptyMap /\ peer_history = EmptyMap /\ trust_lock = "free"
    /\ bonus_tasks = <<>> /\ peers = {} /\ challenges = EmptyMap /\ issued = 0
    /\ accepted = EmptyMap /\ now = 1 /\ ticks = 0
    /\ sessions = EmptyMap /\ session_count = 0
    /\ limits = EmptyMap /\ concurrency = EmptyMap /\ qps_state = EmptyMap
    /\ inflight = EmptyMap /\ calls = EmptyMap /\ remote = FreshNode
    /\ last = Call("init", None, "ok", None)

----------------------------------------------------------------------------
(* The directory: register, update, deregister, claim, heartbeat, storage
   sync, federation merge and trust flush *)

S1 == [name |-> "s1", description |-> "d1"]
S2 == [name |-> "s2", description |-> "d1"]

CardPlain == NewCard("n1", <<S1>>, "http", {}, None, None, None, NoScore, "none", NoTime)
CardOwned == NewCard("n1", <<S2, S1>>, "grpc", {"t1"}, "u1", "c0", None, NoScore, "none", NoTime)
CardBadSig == NewCard("n1", <<S1>>, "http", {}, None, None, None, NoScore, "invalid", NoTime)

ClaimCodes == {"c1"}
OfferedCodes == {"c1", "c0"}

PatchName == [set |-> {"name"}, name |-> "n2"]
PatchTags == [set |-> {"tags"}, tags |-> {"t2"}]
PatchSkills == [set |-> {"skills"}, skills |-> <<S2>>]

RegisterInputs ==
    ({"a1"} \X {CardPlain, CardOwned, CardBadSig}) \cup ({"a2"} \X {CardPlain})
UpdateInputs ==
    ({"a1"} \X {PatchName, PatchTags, PatchSkills}) \cup ({"a2"} \X {PatchTags})

Next ==
    \/ \E in \in RegisterInputs, code \in ClaimCodes : Register(in[1], in[2], code)
    \/ \E in \in UpdateInputs : Update(in[1], in[2], MaxDirEvents)
    \/ \E id \in AgentIds : Deregister(id)
    \/ \E id \in AgentIds, code \in OfferedCodes : Claim(id, code, "u1")
    \/ \E id \in {"a1"} : Heartbeat(id, MaxDirEvents)
    \/ StorageSync
    \/ \E d \in {60} : Tick(d, MaxDirTicks)

Spec == Init /\ [][Next]_vars

\* C7: claim_agent succeeds only on an ownerless record whose claim code is
\* the offered one, and then sets the owner and clears the code; every other
\* claim (an owned record, a wrong code, an unknown id) fails and changes
\* nothing; an owner, once set, stays while the record is registered
C7_ClaimAtMostOnce ==
    [][/\ last'.op = "claim" /\ last'.err = "ok" =>
             /\ last'.id \in DOMAIN agents
             /\ agents[last'.id].owner_id = None
             /\ agents[last'.id].claim_code = last'.arg
             /\ agents'[last'.id].owner_id # None
             /\ agents'[last'.id].claim_code = None
       /\ last'.op = "claim" /\ last'.err # "ok" => UNCHANGED regVars
       /\ \A a \in DOMAIN agents \cap DOMAIN agents' :
             agents[a].owner_id # None => agents'[a].owner_id = agents[a].owner_id]_vars

\* a claimed record has refused a further claim made with the code that
\* claimed it
C7_Witness ==
    /\ last.op = "claim" /\ last.err = "ValueError" /\ last.arg = "c1"
    /\ last.id \in DOMAIN agents
    /\ agents[last.id].owner_id = "u1" /\ agents[last.id].claim_code = None

\* C8: every record of the directory has exactly one of owner_id and
\* claim_code set
C8_OwnerXorClaimCode ==
    \A a \in DOMAIN agents : (agents[a].owner_id # None) # (agents[a].claim_code # None)

\* C9: the species id of every record is the hash of its current skills
C9_SpeciesMatchesSkills ==
    \A a \in DOMAIN agents : agents[a].species_id = SpeciesHash(agents[a].skills)

IndexAgrees(idx, kind) ==
    /\ \A k \in DOMAIN idx : idx[k] # {}
    /\ \A k \in DOMAIN idx : \A a \in idx[k] : a \in DOMAIN agents /\ k \in KeysOf(agents[a], kind)
    /\ \A a \in DOMAIN agents : \A k \in KeysOf(agents[a], kind) : k \in DOMAIN idx /\ a \in idx[k]

\* C10: the skill, protocol and tag indexes agree with the agent map and
\* hold no empty set
C10_IndexesAgree ==
    /\ IndexAgrees(skill_index, "skill")
    /\ IndexAgrees(protocol_index, "protocol")
    /\ IndexAgrees(tag_index, "tag")

----------------------------------------------------------------------------
(* Federation: pull responses merged into a directory whose agents have
   trust scores in flight *)

\* a card as a peer serves it: the peer's updated_at and trust score
FedCard(owner, sig, ts) ==
    NewCard("n2", <<S2>>, "http", {"t1"}, owner, None, None, 100000, sig, ts)
FedTimes == {61}
FedCards == {FedCard(o, g, ts) : o \in {None, "u2"}, g \in {"none", "invalid"}, ts \in FedTimes}

NextFed ==
    \/ \E id \in {"a1"}, code \in ClaimCodes : Register(id, CardPlain, code)
    \/ \E id \in AgentIds, card \in FedCards, code \in ClaimCodes :
          ProcessSyncData({"peer1"}, id, card, code, MaxUpdates)
    \/ \E id \in {"a1"} : RecordEvent(id, "failure", None, MaxUpdates)
    \/ Flush
    \/ \E d \in {60} : Tick(d, MaxTicks)

SpecFed == Init /\ [][NextFed]_vars

IndexVars == <<skill_index, protocol_index, tag_index>>

\* C2: a merge whose incoming card is not strictly newer than the local
\* record changes neither the agent map, nor an index, nor the storage
C2_OlderOrEqualIgnored ==
    [][(/\ last'.op = "process_sync_data"
        /\ last'.id \in DOMAIN agents
        /\ last'.arg.updated_at <= agents[last'.id].updated_at)
       => /\ agents' = agents
          /\ UNCHANGED IndexVars
          /\ storage' = storage]_vars

\* a merge has met a local record at least as new as the incoming card
C2_Witness ==
    /\ last.op = "process_sync_data" /\ last.err = "not newer"
    /\ last.id \in DOMAIN agents
    /\ last.arg.updated_at <= agents[last.id].updated_at

CurNext ==
    [agents |-> agents', skill_index |-> skill_index', protocol_index |-> protocol_index',
     tag_index |-> tag_index', storage |-> storage', search_cache |-> search_cache',
     state_lock |-> state_lock', scores |-> scores', pending_updates |-> pending_updates',
     event_counts |-> event_counts', peer_history |-> peer_history',
     trust_lock |-> trust_lock', bonus_tasks |-> bonus_tasks']

\* C3: a merge into a known agent leaves its trust alone: the stored
\* trust_score and the in-memory scores are what they were, and after the next
\* flush they are what the flush would have made them without the merge
C3_MergeLeavesTrustAlone ==
    [][(last'.op = "process_sync_data" /\ last'.id \in DOMAIN agents)
       => LET a == last'.id
              with == FlushOp(CurNext, now)
              without == FlushOp(Cur, now)
          IN  /\ a \in DOMAIN agents'
              /\ agents'[a].trust_score = agents[a].trust_score
              /\ scores' = scores
              /\ pending_updates' = pending_updates
              /\ with.agents[a].trust_score = without.agents[a].trust_score
              /\ with.scores = without.scores]_vars

----------------------------------------------------------------------------
(* Trust: events, periodic and lazy decay, flush, for an agent registered
   with or without a trust score of its own *)

\* <<event type, source agent>>
TrustEvents == {<<"success", None>>, <<"success", "p1">>, <<"failure", None>>,
                <<"heartbeat", None>>}
\* the trust_score of a registration payload: absent, 0.9, 1.5
PayloadScores == {NoScore, 900000, 1500000}
CardScored(score) == NewCard("n1", <<S1>>, "http", {}, None, None, None, score, "none", NoTime)
\* one decay interval, two
DecayTickSteps == {60, 120}
CardReferred == NewCard("n1", <<S1>>, "http", {}, None, None, "a2", NoScore, "none", NoTime)

NextTrust ==
    \/ \E score \in PayloadScores, code \in ClaimCodes : Register("a1", CardScored(score), code)
    \/ \E e \in TrustEvents : RecordEvent("a1", e[1], e[2], MaxEvents)
    \/ DecayTick
    \/ \E id \in AgentIds : GetScore(id)
    \/ Flush
    \/ \E d \in DecayTickSteps : Tick(d, MaxTrustTicks)

SpecTrust == Init /\ [][NextTrust]_vars

InRange(x) == min_score <= x /\ x <= max_score

\* C1: every score the TrustManager holds or returns and every trust_score
\* stored on a directory record lies in [0, 1]
C1_ScoresInRange ==
    /\ \A a \in DOMAIN scores : InRange(scores[a])
    /\ \A a \in DOMAIN pending_updates : InRange(pending_updates[a])
    /\ last.op = "get_score" => InRange(last.arg)
    /\ \A a \in DOMAIN agents :
          agents[a].trust_score # NoScore => InRange(agents[a].trust_score)

\* new is no further from the decay target than old, and on the same side
Toward(old, new) ==
    /\ Abs(new - decay_target) <= Abs(old - decay_target)
    /\ old >= decay_target => new >= decay_target
    /\ old <= decay_target => new <= decay_target

\* C4: a step that brings the agent no event (a periodic decay, a lazy
\* decay on read, a flush) moves no in-memory score away from 0.5 or across it
C4_QuietScoreApproachesTarget ==
    [][last'.op \in {"decay", "get_score", "flush"}
       => \A a \in DOMAIN scores :
             a \in DOMAIN scores' /\ Toward(scores[a], scores'[a])]_vars

----------------------------------------------------------------------------
(* Referral: successes recorded for an agent registered with a referrer *)

NextReferral ==
    \/ \E code \in ClaimCodes : Register("a1", CardReferred, code)
    \/ \E src \in {None, "p1"} : RecordEvent("a1", "success", src, MaxSuccess)
    \/ Flush
    \/ \E d \in TickSteps : Tick(d, MaxTicks)

SpecReferral == Init /\ [][NextReferral]_vars

BonusesFor(referrer) == Len(SelectSeq(bonus_tasks, LAMBDA r : r = referrer))

\* C5: every record_event call on a referred agent completes, and the
\* referrer has exactly one bonus scheduled once referral_paid is set, none
\* before
C5_ReferralBonusOnce ==
    \A a \in DOMAIN agents :
        agents[a].referrer_id # None
        => /\ LocksFree
           /\ BonusesFor(agents[a].referrer_id) = (IF agents[a].referral_paid THEN 1 ELSE 0)

----------------------------------------------------------------------------
(* Proof of work on its own *)

Solutions == 0..2

NextPow ==
    \/ CreateChallenge
    \/ \E n \in 1..MaxNonces, x \in Solutions : VerifySolution(n, x)
    \/ \E d \in TickSteps : Tick(d, MaxTicks)

SpecPow == Init /\ [][NextPow]_vars

\* C6: a nonce is accepted at most once, and only while it is registered,
\* unexpired and its digest has `difficulty` leading zeros; the accepting call
\* removes it
C6_AcceptedAtMostOnce ==
    [][/\ \A n \in DOMAIN accepted' : accepted'[n] <= 1
       /\ (last'.op = "verify_solution" /\ last'.err = "True") =>
             /\ last'.id \in DOMAIN challenges
             /\ ~Expired(challenges[last'.id], now)
             /\ DigestOk(last'.id, last'.arg)
             /\ last'.id \notin DOMAIN challenges']_vars

\* a replay of an accepted nonce with a good digest has been tried and refused
C6_Witness ==
    /\ last.op = "verify_solution" /\ last.err = "False"
    /\ last.id \in DOMAIN accepted
    /\ DigestOk(last.id, last.arg)

----------------------------------------------------------------------------
(* NegotiationManager: sessions and rounds *)

MaxSessions == 1
MaxRounds == 3
MaxNegTicks == 1
session_ttl_seconds == 300
FinalStatuses == {"agreed", "rejected", "expired"}
RoundActions == {"accept", "reject", "counter", "bogus"}
RoundParams == {None, "p1"}

Message(sender, content, params) == [sender |-> sender, content |-> content, params |-> params]

\* create_session: status proposed, the proposal as first message
NewSession(t) ==
    [status |-> "proposed", history |-> <<Message("initiator", "proposal", None)>>,
     commitment |-> None, expires_at |-> t + session_ttl_seconds]

\* `datetime.now(timezone.utc) > session.expires_at`
SessionExpired(session, t) == t > session.expires_at

\* get_session: [st, found]; an expired session is marked as it is read
GetSessionOp(ss, sid, t) ==
    IF sid \notin DOMAIN ss THEN [st |-> ss, found |-> FALSE]
    ELSE IF SessionExpired(ss[sid], t)
         THEN [st |-> [ss EXCEPT ![sid].status = "expired"], found |-> TRUE]
         ELSE [st |-> ss, found |-> TRUE]

\* `params or {}`
Commitment(params) == IF params = None THEN "{}" ELSE params

\* lines 108-135: a round on a live session; the expiry is renewed first
RoundOnLive(ss, sid, action, params, t) ==
    CASE action = "accept" ->
           Ok([ss EXCEPT ![sid].expires_at = t + session_ttl_seconds,
                         ![sid].status = "agreed",
                         ![sid].commitment = Commitment(params),
                         ![sid].history = Append(@, Message("target", "Proposal accepted", params))])
      [] action = "reject" ->
           Ok([ss EXCEPT ![sid].expires_at = t + session_ttl_seconds,
                         ![sid].status = "rejected",
                         ![sid].history = Append(@, Message("target", "Proposal rejected", None))])
      [] action = "counter" ->
           Ok([ss EXCEPT ![sid].expires_at = t + session_ttl_seconds,
                         ![sid].status = "countered",
                         ![sid].history = Append(@, Message("target", "Counter-proposal", params))])
      [] OTHER -> Fail([ss EXCEPT ![sid].expires_at = t + session_ttl_seconds], "ValueError")

\* lines 102-106, g the outcome of get_session
RoundAfterLookup(g, sid, action, params, t) ==
    IF ~g.found THEN Fail(g.st, "ValueError")
    ELSE IF g.st[sid].status \in FinalStatuses THEN Fail(g.st, "ValueError")
    ELSE RoundOnLive(g.st, sid, action, params, t)

\* process_round without the check of line 105
ProcessRoundOnFinal(ss, sid, action, params, t) ==
    IF ~GetSessionOp(ss, sid, t).found THEN Fail(ss, "ValueError")
    ELSE RoundOnLive(GetSessionOp(ss, sid, t).st, sid, action, params, t)

ProcessRoundOp(ss, sid, action, params, t) ==
    RoundAfterLookup(GetSessionOp(ss, sid, t), sid, action, params, t)

CleanupExpiredOp(ss, t) ==
    [sid \in {x \in DOMAIN ss : ~SessionExpired(ss[x], t)} |-> ss[sid]]

CreateSession ==
    /\ session_count < MaxSessions
    /\ session_count' = session_count + 1
    /\ sessions' = Put(sessions, session_count + 1, NewSession(now))
    /\ last' = Call("create_session", session_count + 1, "ok", None)
    /\ UNCHANGED <<remote, calls, regVars, peers, powVars, limitVars, now, ticks>>

ProcessRound(sid, action, params) ==
    /\ sid \in DOMAIN ProcessRoundOp(sessions, sid, action, params, now).st
          => Len(ProcessRoundOp(sessions, sid, action, params, now).st[sid].history) <= MaxRounds
    /\ sessions' = ProcessRoundOp(sessions, sid, action, params, now).st
    /\ last' = Call("process_round", sid, ProcessRoundOp(sessions, sid, action, params, now).err, action)
    /\ UNCHANGED <<remote, calls, regVars, peers, powVars, session_count, limitVars, now, ticks>>

CleanupExpired ==
    /\ sessions' = CleanupExpiredOp(sessions, now)
    /\ last' = Call("cleanup_expired", None, "ok", None)
    /\ UNCHANGED <<remote, calls, regVars, peers, powVars, session_count, limitVars, now, ticks>>

\* half a session lifetime, and just more than one
SessionTickSteps == {150, 301}

NextNeg ==
    \/ CreateSession
    \/ \E sid \in 1..MaxSessions, action \in RoundActions, params \in RoundParams :
          ProcessRound(sid, action, params)
    \/ CleanupExpired
    \/ \E d \in SessionTickSteps : Tick(d, MaxNegTicks)

SpecNeg == Init /\ [][NextNeg]_vars

\* C11: a round on a session that is agreed, rejected or expired, or whose
\* expiry has passed, fails; the history and the commitment stay, and the
\* status stays or becomes expired
C11_FinalSessionRefusesRounds ==
    [][(/\ last'.op = "process_round"
        /\ last'.id \in DOMAIN sessions
        /\ \/ sessions[last'.id].status \in FinalStatuses
           \/ now > sessions[last'.id].expires_at)
       => /\ last'.err = "ValueError"
          /\ last'.id \in DOMAIN sessions'
          /\ sessions'[last'.id].history = sessions[last'.id].history
          /\ sessions'[last'.id].commitment = sessions[last'.id].commitment
          /\ sessions'[last'.id].status \in {sessions[last'.id].status, "expired"}]_vars

\* an accept has been refused on a session that ran out of time after its
\* proposal
C11_Witness ==
    /\ last.op = "process_round" /\ last.err = "ValueError" /\ last.arg = "accept"
    /\ last.id \in DOMAIN sessions
    /\ sessions[last.id].status = "expired"
    /\ Len(sessions[last.id].history) = 1

----------------------------------------------------------------------------
(* AgentRateLimiter: concurrency slots and the token bucket.  Tokens and
   budgets are in thousandths: TokenUnit is one token, a budget of 500 is
   0.5 requests per second. *)

MaxInflight == 3
MaxRejects == 2
MaxLimitTicks == 2
TokenUnit == 1000
\* concurrency_limit and qps_budget are Optional: None is NoLimit
NoLimit == -1

LimitedIds == {"a1"}
ConcurrencyLimits == {NoLimit, 1, 2}
QpsBudgets == {NoLimit, 500, 1000, 2500}

\* the two fields of the card that the limiter reads
LimitsOf(cl, q) == [concurrency_limit |-> cl, qps_budget |-> q]

\* `agent.concurrency_limit is not None and agent.concurrency_limit > 0`
HasConcurrencyLimit(card) == card.concurrency_limit # NoLimit /\ card.concurrency_limit > 0

\* `agent.qps_budget is not None and agent.qps_budget > 0`
HasQpsBudget(card) == card.qps_budget # NoLimit /\ card.qps_budget > 0

\* `self._concurrency.get(agent_id, 0)`
CountAt(conc, id) == IF id \in DOMAIN conc THEN conc[id] ELSE 0

\* capacity is the budget itself
CapacityIsBudget(q) == q

\* `max(float(agent.qps_budget), 1.0)`
Capacity(q) == IF q > TokenUnit THEN q ELSE TokenUnit

\* `self._qps_state.get(agent_id, (now, capacity))`
BucketOf(qs, id, t, cap) == IF id \in DOMAIN qs THEN qs[id] ELSE <<t, cap>>

\* `min(capacity, tokens + elapsed * qps_budget)`
Refilled(bucket, q, t, cap) ==
    IF bucket[2] + (t - bucket[1]) * q < cap THEN bucket[2] + (t - bucket[1]) * q ELSE cap

CurLimiter == [concurrency |-> concurrency, qps_state |-> qps_state]

Admitted(lim) == [lim |-> lim, admitted |-> TRUE, why |-> None]
Rejected(lim, why) == [lim |-> lim, admitted |-> FALSE, why |-> why]

\* line 63
TakeSlot(lim, card, id) ==
    IF HasConcurrencyLimit(card)
    THEN [lim EXCEPT !.concurrency = Put(@, id, CountAt(@, id) + 1)]
    ELSE lim

\* lines 94-95
GiveBackSlot(lim, card, id) ==
    IF HasConcurrencyLimit(card)
    THEN [lim EXCEPT !.concurrency = Put(@, id, CountAt(@, id) - 1)]
    ELSE lim

\* lines 79-99, tokens being the refilled amount
SpendToken(lim, card, id, t, tokens) ==
    IF tokens < TokenUnit
    THEN Rejected(GiveBackSlot(lim, card, id), "qps")
    ELSE Admitted([lim EXCEPT !.qps_state = Put(@, id, <<t, tokens - TokenUnit>>)])

\* the token check that keeps the slot it took
QpsCheckKeepsSlot(lim, card, id, t) ==
    IF ~HasQpsBudget(card) THEN Admitted(lim)
    ELSE IF Refilled(BucketOf(lim.qps_state, id, t, Capacity(card.qps_budget)), card.qps_budget, t, Capacity(card.qps_budget)) < TokenUnit
         THEN Rejected(lim, "qps")
         ELSE SpendToken(lim, card, id, t, Refilled(BucketOf(lim.qps_state, id, t, Capacity(card.qps_budget)), card.qps_budget, t, Capacity(card.qps_budget)))

\* lines 67-99
QpsCheck(lim, card, id, t) ==
    IF ~HasQpsBudget(card) THEN Admitted(lim)
    ELSE SpendToken(lim, card, id, t, Refilled(BucketOf(lim.qps_state, id, t, Capacity(card.qps_budget)), card.qps_budget, t, Capacity(card.qps_budget)))

\* _acquire without the check of line 48
AcquireNoCeiling(lim, card, id, t) == QpsCheck(TakeSlot(lim, card, id), card, id, t)

\* _acquire, lines 43-101
AcquireOp(lim, card, id, t) ==
    IF HasConcurrencyLimit(card) /\ CountAt(lim.concurrency, id) >= card.concurrency_limit
    THEN Rejected(lim, "concurrency")
    ELSE QpsCheck(TakeSlot(lim, card, id), card, id, t)

\* _release
ReleaseOp(lim, card, id) ==
    IF HasConcurrencyLimit(card) /\ CountAt(lim.concurrency, id) > 0
    THEN [lim EXCEPT !.concurrency = Put(@, id, CountAt(@, id) - 1)]
    ELSE lim

\* an agent's card with its limits becomes known
Configure(id, cl, q) ==
    /\ id \notin DOMAIN limits
    /\ limits' = Put(limits, id, LimitsOf(cl, q))
    /\ inflight' = Put(inflight, id, 0)
    /\ last' = Call("configure", id, "ok", None)
    /\ UNCHANGED <<remote, calls, regVars, peers, powVars, negVars, concurrency, qps_state, now, ticks>>

\* the outcome r of _acquire takes effect: entry into the context, or one
\* rate_limit event and the 429
Entered(r, id) ==
    /\ concurrency' = r.lim.concurrency
    /\ qps_state' = r.lim.qps_state
    /\ IF r.admitted
       THEN /\ inflight' = [inflight EXCEPT ![id] = @ + 1]
            /\ last' = Call("acquire", id, "ok", None)
            /\ UNCHANGED regVars
       ELSE /\ trust_lock = "free"
            /\ Commit(RecordEventOp(Cur, id, "rate_limit", None, now))
            /\ last' = Call("acquire", id, "429", r.why)
            /\ UNCHANGED inflight

\* `async with limiter.limit(agent)`: entry
Enter(id) ==
    /\ id \in DOMAIN limits
    /\ inflight[id] < MaxInflight
    /\ CountOf(event_counts, id, "rate_limit") < MaxRejects
    /\ Entered(AcquireOp(CurLimiter, limits[id], id, now), id)
    /\ UNCHANGED <<remote, calls, peers, powVars, negVars, limits, now, ticks>>

\* `async with limiter.limit(agent)`: exit
Exit(id) ==
    /\ id \in DOMAIN limits
    /\ inflight[id] > 0
    /\ concurrency' = ReleaseOp(CurLimiter, limits[id], id).concurrency
    /\ inflight' = [inflight EXCEPT ![id] = @ - 1]
    /\ last' = Call("release", id, "ok", None)
    /\ UNCHANGED <<remote, calls, regVars, peers, powVars, negVars, limits, qps_state, now, ticks>>

LimitTickSteps == {1}

NextLimit ==
    \/ \E id \in LimitedIds, cl \in ConcurrencyLimits, q \in QpsBudgets : Configure(id, cl, q)
    \/ \E id \in LimitedIds : Enter(id)
    \/ \E id \in LimitedIds : Exit(id)
    \/ \E d \in LimitTickSteps : Tick(d, MaxLimitTicks)

SpecLimit == Init /\ [][NextLimit]_vars

\* C12: with a concurrency limit N > 0 the invocations inside the context
\* never exceed N and the counter equals their number; an exit frees a slot,
\* and an entry below N is never refused for concurrency
C12_InflightWithinLimit ==
    /\ [](\A id \in DOMAIN limits :
            HasConcurrencyLimit(limits[id])
            => /\ inflight[id] <= limits[id].concurrency_limit
               /\ CountAt(concurrency, id) = inflight[id])
    /\ [][/\ (last'.op = "release" /\ HasConcurrencyLimit(limits[last'.id]))
             => CountAt(concurrency', last'.id) = CountAt(concurrency, last'.id) - 1
          /\ (/\ last'.op = "acquire"
              /\ HasConcurrencyLimit(limits[last'.id])
              /\ inflight[last'.id] < limits[last'.id].concurrency_limit)
             => last'.arg # "concurrency"]_vars

\* limit 1, budget 2.5: a second invocation is inside after the first left
C12_Witness ==
    /\ "a1" \in DOMAIN limits
    /\ limits["a1"] = LimitsOf(1, 2500)
    /\ last.op = "acquire" /\ last.err = "ok"
    /\ inflight["a1"] = 1
    /\ "a1" \in DOMAIN qps_state /\ qps_state["a1"][2] = 500

\* C13: a refused _acquire leaves the concurrency counter and the stored
\* bucket as they were and records exactly one rate_limit event
C13_RejectionLeavesLimiter ==
    [][(last'.op = "acquire" /\ last'.err = "429")
       => /\ CountAt(concurrency', last'.id) = CountAt(concurrency, last'.id)
          /\ qps_state' = qps_state
          /\ CountOf(event_counts', last'.id, "rate_limit")
               = CountOf(event_counts, last'.id, "rate_limit") + 1
          /\ \A ev \in DOMAIN event_counts'[last'.id] \ {"rate_limit"} :
               CountOf(event_counts', last'.id, ev) = CountOf(event_counts, last'.id, ev)]_vars

\* a refusal for tokens by an agent that also has a concurrency limit
C13_Witness ==
    /\ last.op = "acquire" /\ last.err = "429" /\ last.arg = "qps"
    /\ HasConcurrencyLimit(limits[last.id])
    /\ CountOf(event_counts, last.id, "rate_limit") = 1

\* the outcome of the n-th of n acquisitions made at time 0 with budget q and
\* no concurrency limit, from the limiter state lim
RECURSIVE NthAcquire(_, _, _)
NthAcquire(lim, q, n) ==
    IF n = 1 THEN AcquireOp(lim, LimitsOf(NoLimit, q), "a1", 0)
    ELSE NthAcquire(AcquireOp(lim, LimitsOf(NoLimit, q), "a1", 0).lim, q, n - 1)

FreshLimiter == [concurrency |-> EmptyMap, qps_state |-> EmptyMap]

\* C14: the bucket starts full at max(q, 1); at one instant exactly
\* floor(capacity) acquisitions in a row are admitted; a check sees
\* min(capacity, tokens + t*q) and admits exactly when that is a token or more
C14_TokenBucket ==
    /\ [](\A id \in DOMAIN limits :
            HasQpsBudget(limits[id])
            => \A n \in 1..4 :
                 NthAcquire(FreshLimiter, limits[id].qps_budget, n).admitted
                 <=> n <= (IF limits[id].qps_budget > 1000 THEN limits[id].qps_budget ELSE 1000) \div 1000)
    /\ [][(/\ last'.op = "acquire"
           /\ last'.arg # "concurrency"
           /\ HasQpsBudget(limits[last'.id]))
          => LET id == last'.id
                 q == limits[id].qps_budget
                 cap == IF q > 1000 THEN q ELSE 1000
                 stored == IF id \in DOMAIN qps_state THEN qps_state[id] ELSE <<now, cap>>
                 sum == stored[2] + (now - stored[1]) * q
                 avail == IF sum < cap THEN sum ELSE cap
             IN  /\ (last'.err = "ok") <=> (avail >= 1000)
                 /\ last'.err = "ok" => qps_state'[id] = <<now, avail - 1000>>
                 /\ id \notin DOMAIN qps_state => last'.err = "ok"]_vars

\* budget 0.5 and no concurrency limit: refused once, admitted at a later time
C14_Witness ==
    /\ last.op = "acquire" /\ last.err = "ok"
    /\ limits[last.id] = LimitsOf(NoLimit, 500)
    /\ CountOf(event_counts, last.id, "rate_limit") >= 1
    /\ qps_state[last.id] = <<now, 0>>
    /\ ticks = 2

----------------------------------------------------------------------------
(* AgentRegistry.discover_agents, search_agents, match_capability.  A filter
   record is [skill_name, protocol, tags, healthy_only, min_trust, offset,
   limit]; None, {} and NoScore stand for a filter that is not supplied.  A
   search key has the query q as well.  Strings are atoms: `query in name`
   is equality. *)

min_trust_score == 200000
discover_limit == 10000

\* `index.get(key, set())`
IndexGet(idx, key) == IF key \in DOMAIN idx THEN idx[key] ELSE {}

\* the id sets of the supplied filters, lines 414-431
FilterSets(st, f) ==
    (IF f.skill_name # None THEN {IndexGet(st.skill_index, f.skill_name)} ELSE {})
    \cup (IF f.protocol # None THEN {IndexGet(st.protocol_index, f.protocol)} ELSE {})
    \cup {IndexGet(st.tag_index, tg) : tg \in f.tags}

\* lines 414-437: the intersection, or every id when no filter is supplied;
\* ids without a record are skipped
CandidateIds(st, f) ==
    IF FilterSets(st, f) = {} THEN DOMAIN st.agents
    ELSE {a \in DOMAIN st.agents : \A ids \in FilterSets(st, f) : a \in ids}

\* `agent.trust_score = await self.calculate_trust_score(agent_id)` for every
\* id of `ids`: get_score of a record in the map touches that id's entries only
Scored(st, ids, t) ==
    [st EXCEPT
       !.scores = [a \in DOMAIN st.scores \cup ids |->
                     IF a \in ids THEN GetScoreOp(st, a, t).value ELSE st.scores[a]],
       !.pending_updates =
           [a \in DOMAIN st.pending_updates
                   \cup {x \in ids : x \in DOMAIN GetScoreOp(st, x, t).st.pending_updates} |->
              IF a \in ids THEN GetScoreOp(st, a, t).st.pending_updates[a]
              ELSE st.pending_updates[a]],
       !.agents = [a \in DOMAIN st.agents |->
                     IF a \in ids THEN [st.agents[a] EXCEPT !.trust_score = GetScoreOp(st, a, t).value]
                     ELSE st.agents[a]]]

\* lines 449-453, the query being absent
Passes(rec, f) ==
    /\ f.min_trust = NoScore \/ rec.trust_score >= f.min_trust
    /\ ~f.healthy_only \/ rec.health_status = "healthy"

\* b comes before a in `sort(key=updated_at, reverse=True)`; records with one
\* stamp keep the order `pos` in which the candidate set was iterated
Before(m, pos, b, a) ==
    \/ m[b].updated_at > m[a].updated_at
    \/ m[b].updated_at = m[a].updated_at /\ pos[b] < pos[a]

SortedByUpdated(ids, m, pos) ==
    [i \in 1..Cardinality(ids) |->
        CHOOSE a \in ids : Cardinality({b \in ids : Before(m, pos, b, a)}) = i - 1]

\* seq[offset : offset + limit]
Slice(seq, offset, limit) ==
    SubSeq(seq, offset + 1, IF offset + limit < Len(seq) THEN offset + limit ELSE Len(seq))

\* lines 439-462 on the state s2 in which the candidates have their scores
DiscoverFrom(s2, ids, f, pos) ==
    [st |-> s2, err |-> "ok",
     value |-> Slice(SortedByUpdated({a \in ids : Passes(s2.agents[a], f)}, s2.agents, pos),
                     f.offset, f.limit)]

\* discover_agents: [st, err, value], the value being the ids in order
DiscoverOp(st, f, pos, t) ==
    DiscoverFrom(Scored(st, CandidateIds(st, f), t), CandidateIds(st, f), f, pos)

\* _search_score before the trust booster
Semantic(rec, q) ==
    (IF q = rec.name THEN 1000 ELSE 0)
    + (IF q \in SkillNamesOf(rec.skills) THEN 900 ELSE 0)
    + (IF q \in {rec.skills[i].description : i \in DOMAIN rec.skills} THEN 600 ELSE 0)
    + (IF q \in rec.tags THEN 700 ELSE 0)

\* `semantic_score * (0.8 + trust_score * 0.4)`, in thousandths
Boosted(sem, trust) == (sem * (800 + trust \div 2500)) \div 1000

\* the total score of a candidate; without a query every candidate scores 1.0
TotalScore(rec, q) == IF q = "" THEN 1000 ELSE Boosted(Semantic(rec, q), rec.trust_score)

\* the candidates kept, in candidate order (lines 553-582)
Kept(m, cands, q) == SelectSeq(cands, LAMBDA a : q = "" \/ TotalScore(m[a], q) > 0)

\* `final_results.sort(key=score, reverse=True)`, a stable sort
SortedByScore(m, kept, q) ==
    [i \in 1..Len(kept) |->
        LET j == CHOOSE j \in 1..Len(kept) :
                   Cardinality({x \in 1..Len(kept) :
                       \/ TotalScore(m[kept[x]], q) > TotalScore(m[kept[j]], q)
                       \/ TotalScore(m[kept[x]], q) = TotalScore(m[kept[j]], q) /\ x < j}) = i - 1
        IN  [id |-> kept[j], score |-> TotalScore(m[kept[j]], q)]]

CacheHit(cache, k) == \E e \in cache : e[1] = k
Cached(cache, k) == (CHOOSE e \in cache : e[1] = k)[2]

\* lines 531-591, d being what discover_agents gave
SearchMiss(d, k, sliced) ==
    [st |-> [d.st EXCEPT !.search_cache = @ \cup {<<k, sliced>>}], err |-> "ok", value |-> sliced]

SearchScored(d, k) ==
    IF k.q # "" /\ \E i \in DOMAIN d.value : ~SkillsReadable(d.st.agents[d.value[i]])
    THEN [st |-> d.st, err |-> "AttributeError", value |-> <<>>]
    ELSE SearchMiss(d, k, Slice(SortedByScore(d.st.agents, Kept(d.st.agents, d.value, k.q), k.q),
                               k.offset, k.limit))

\* search_agents: [st, err, value], the value being [id, score] entries
SearchAgentsOp(st, k, pos, t) ==
    IF CacheHit(st.search_cache, k)
    THEN [st |-> st, err |-> "ok", value |-> Cached(st.search_cache, k)]
    ELSE SearchScored(DiscoverOp(st, [k EXCEPT !.limit = discover_limit, !.offset = 0], pos, t), k)

\* the key of match_capability's search
MatchKey(q) ==
    [q |-> q, skill_name |-> None, protocol |-> None, tags |-> {}, healthy_only |-> TRUE,
     min_trust |-> min_trust_score, offset |-> 0, limit |-> 1]

\* lines 601-629, r being the search's outcome: the id of the match or None
MatchFound(r) ==
    IF r.err # "ok" THEN [st |-> r.st, err |-> r.err, value |-> None]
    ELSE IF Len(r.value) = 0 THEN [st |-> r.st, err |-> "ok", value |-> None]
    ELSE IF ~GetAgentOp(r.st, r.value[1].id).found
         THEN [st |-> GetAgentOp(r.st, r.value[1].id).st, err |-> "ok", value |-> None]
    ELSE [st |-> GetAgentOp(r.st, r.value[1].id).st, err |-> "ok", value |-> r.value[1].id]

MatchCapabilityOp(st, q, pos, t) == MatchFound(SearchAgentsOp(st, MatchKey(q), pos, t))

\* a handler's outcome r = [st, err, value] takes effect; the call and what
\* it returned are noted in `last`
Answer(r, op, input) ==
    Commit(r.st) /\ last' = Call(op, r.value, r.err, input)

Discover(f, pos) ==
    /\ LocksFree
    /\ Answer(DiscoverOp(Cur, f, pos, now), "discover", f)
    /\ UNCHANGED <<remote, calls, peers, powVars, sideVars, now, ticks>>

Search(k, pos) ==
    /\ LocksFree
    /\ Answer(SearchAgentsOp(Cur, k, pos, now), "search", k)
    /\ UNCHANGED <<remote, calls, peers, powVars, sideVars, now, ticks>>

Match(q, pos) ==
    /\ LocksFree
    /\ Answer(MatchCapabilityOp(Cur, q, pos, now), "match", q)
    /\ UNCHANGED <<remote, calls, peers, powVars, sideVars, now, ticks>>

\* heartbeat with the status the agent reports
HeartbeatStatus(id, status, limit) ==
    /\ LocksFree
    /\ EventTotal(id) < limit
    /\ Apply(HeartbeatOp(Cur, id, status, now), "heartbeat", id, status)
    /\ UNCHANGED <<remote, calls, peers, powVars, sideVars, now, ticks>>

\* the orders in which a set of ids can be iterated
Orders == {p \in [AgentIds -> 1..Cardinality(AgentIds)] : \A a, b \in AgentIds : p[a] = p[b] => a = b}

Filter(skill_name, protocol, tags, healthy_only, min_trust, offset, limit) ==
    [skill_name |-> skill_name, protocol |-> protocol, tags |-> tags,
     healthy_only |-> healthy_only, min_trust |-> min_trust, offset |-> offset, limit |-> limit]

DiscoverFilters ==
    {Filter(None, None, {}, FALSE, NoScore, 0, 50),
     Filter(None, "http", {}, TRUE, NoScore, 0, 50),
     Filter("s2", "grpc", {"t1"}, FALSE, NoScore, 0, 50),
     Filter("zz", None, {}, FALSE, NoScore, 0, 50),
     Filter("s1", None, {}, FALSE, 450000, 0, 50),
     Filter(None, None, {}, FALSE, NoScore, 1, 1)}

SearchKey(q, limit, healthy_only) ==
    [q |-> q, skill_name |-> None, protocol |-> None, tags |-> {}, healthy_only |-> healthy_only,
     min_trust |-> NoScore, offset |-> 0, limit |-> limit]

SearchKeys == {SearchKey("s1", 20, FALSE)}
MatchQueries == {"s1"}
ReportedStatus == {"healthy", "unhealthy"}

MaxSearchEvents == 2

NextSearch ==
    \/ \E in \in ({"a1"} \X {CardPlain}) \cup ({"a2"} \X {CardOwned}), code \in ClaimCodes :
          Register(in[1], in[2], code)
    \/ \E patch \in {PatchSkills} : Update("a1", patch, MaxSearchEvents)
    \/ \E id \in {"a1"} : Deregister(id)
    \/ \E in \in ({"a1"} \X ReportedStatus) \cup {<<"a2", "healthy">>} :
          HeartbeatStatus(in[1], in[2], MaxSearchEvents)
    \/ \E id \in {"a1"} : RecordEvent(id, "failure", None, MaxSearchEvents)
    \/ \E f \in DiscoverFilters, pos \in Orders : Discover(f, pos)
    \/ \E k \in SearchKeys, pos \in Orders : Search(k, pos)
    \/ \E q \in MatchQueries, pos \in Orders : Match(q, pos)
    \/ \E d \in {60} : Tick(d, MaxDirTicks)

SpecSearch == Init /\ [][NextSearch]_vars

\* C16: register, update, deregister, claim and heartbeat each leave the
\* search result cache empty when they complete
C16_MutationsEmptyCache ==
    [][(/\ last'.op \in {"register", "update", "deregister", "claim", "heartbeat"}
        /\ last'.err = "ok")
       => search_cache' = {}]_vars

\* the score calculate_trust_score reports now
TrustNow(a) == IF a \in DOMAIN scores THEN scores[a] ELSE GetScoreOp(Cur, a, now).value

Qualifies(a) == agents[a].health_status = "healthy" /\ TrustNow(a) >= 200000

\* C17: the agent match_capability returns is healthy and has a trust score
\* of 0.2 or more at the time of the call; it returns none when no agent is
C17_MatchIsHealthyAndTrusted ==
    (last.op = "match" /\ last.err = "ok")
    => /\ last.id # None => (last.id \in DOMAIN agents /\ Qualifies(last.id))
       /\ (\A a \in DOMAIN agents : ~Qualifies(a)) => last.id = None

\* the record has every supplied filter value
Carries(rec, f) ==
    /\ f.skill_name = None \/ f.skill_name \in SkillNamesOf(rec.skills)
    /\ f.protocol = None \/ rec.protocol = f.protocol
    /\ f.tags \subseteq rec.tags

Expected(f) ==
    {a \in DOMAIN agents :
        /\ Carries(agents[a], f)
        /\ f.healthy_only => agents[a].health_status = "healthy"
        /\ f.min_trust # NoScore => TrustNow(a) >= f.min_trust}

\* C20: discover_agents returns exactly the agents that carry every supplied
\* filter, are healthy unless healthy_only is false and have min_trust or
\* more, newest updated_at first, cut by offset and limit
C20_DiscoverExact ==
    last.op = "discover"
    => \E pos \in Orders :
         last.id = Slice(SortedByUpdated(Expected(last.arg), agents, pos),
                         last.arg.offset, last.arg.limit)

----------------------------------------------------------------------------
(* AgentRegistry.list_agents and FederationManager.get_local_updates, in a
   directory that grows past one page.  Ids are 1, 2, ... in the order of
   registration, which is the order of the agent dict. *)

MaxAgents == 101
EarlyAgents == 2
list_limit == 100

\* the position of each id in the agent dict
InsertionOrder == [a \in 1..(MaxAgents + 1) |-> a]

\* the ids of `sorted(self.agents.values(), key=updated_at, reverse=True)[skip : skip + limit]`
PageIds(m, pos, skip, limit) ==
    {a \in DOMAIN m :
        /\ Cardinality({b \in DOMAIN m : Before(m, pos, b, a)}) >= skip
        /\ Cardinality({b \in DOMAIN m : Before(m, pos, b, a)}) < skip + limit}

\* list_agents sorted by updated_at: [st, value], the value being the ids of
\* the page, each with its trust score calculated
ListAgentsOp(st, pos, skip, limit, t) ==
    [st |-> Scored(st, PageIds(st.agents, pos, skip, limit), t),
     value |-> PageIds(st.agents, pos, skip, limit)]

\* lines 27-33 of get_local_updates, listed being what list_agents gave
UpdatedSince(listed, since) ==
    [st |-> listed.st, err |-> "ok",
     value |-> {a \in listed.value : listed.st.agents[a].updated_at > since}]

\* get_local_updates: list_agents() with its defaults, then the filter
GetLocalUpdatesOp(st, pos, since, t) == UpdatedSince(ListAgentsOp(st, pos, 0, list_limit, t), since)

\* the payload holds the agents and list(self.peers)
GetLocalUpdates(pos, since) ==
    /\ LocksFree
    /\ Commit(GetLocalUpdatesOp(Cur, pos, since, now).st)
    /\ last' = Call("get_local_updates",
                    [agents |-> GetLocalUpdatesOp(Cur, pos, since, now).value, peers |-> peers],
                    "ok", since)
    /\ UNCHANGED <<remote, calls, peers, powVars, sideVars, now, ticks>>

\* the directory is read, and the clock moves, while it is small or as large
\* as a page; in between it only grows
Quiet == Cardinality(DOMAIN agents) <= EarlyAgents \/ Cardinality(DOMAIN agents) >= list_limit

Watermarks == {0, 1}

NextUpdates ==
    \/ \E id \in 1..MaxAgents, code \in ClaimCodes :
          id = Cardinality(DOMAIN agents) + 1 /\ Register(id, CardPlain, code)
    \/ \E since \in Watermarks : Quiet /\ GetLocalUpdates(InsertionOrder, since)
    \/ Quiet /\ ProcessSyncData({"peer1"}, 1, FedCard(None, "invalid", 61), "c1", MaxUpdates)
    \/ \E d \in {1} : Quiet /\ Tick(d, MaxDirTicks)

SpecUpdates == Init /\ [][NextUpdates]_vars

\* C18: get_local_updates(since) returns the agents of the directory whose
\* updated_at is greater than since, all of them and no other, and the
\* known peers
C18_UpdatesAreComplete ==
    last.op = "get_local_updates"
    => /\ last.id.agents = {a \in DOMAIN agents : agents[a].updated_at > last.arg}
       /\ last.id.peers = peers

----------------------------------------------------------------------------
(* Failed directory calls; the score of a new registration *)

\* C15: a register_agent or update_agent call that ends in an error leaves
\* the agent map, the three indexes and the storage as they were
C15_FailedCallChangesNothing ==
    [][(last'.op \in {"register", "update"} /\ last'.err # "ok")
       => UNCHANGED <<agents, skill_index, protocol_index, tag_index, storage>>]_vars

\* C19: calculate_trust_score called right after a successful register_agent
\* of the same id reports the neutral default
C19_NewRegistrationIsNeutral ==
    [][(/\ last.op = "register" /\ last.err = "ok"
        /\ last'.op = "get_score" /\ last'.id = last.id)
       => last'.arg = initial_score]_vars

----------------------------------------------------------------------------
(* Federation merge of a newer record into a known agent *)

\* C21: a merge of a validly signed incoming card that is strictly newer
\* than the local record makes name, skills, protocol, tags and signature of
\* the local record those of the incoming card and keeps the local
\* trust_score, created_at, claim_code and species_id, whatever else the
\* incoming card carries (an owner_id among it)
C21_NewerRecordPropagates ==
    [][(/\ last'.op = "process_sync_data"
        /\ last'.id \in DOMAIN agents
        /\ last'.arg.signature # "invalid"
        /\ last'.arg.updated_at > agents[last'.id].updated_at)
       => /\ last'.id \in DOMAIN agents'
          /\ agents'[last'.id].name = last'.arg.name
          /\ agents'[last'.id].skills = last'.arg.skills
          /\ agents'[last'.id].protocol = last'.arg.protocol
          /\ agents'[last'.id].tags = last'.arg.tags
          /\ agents'[last'.id].signature = last'.arg.signature
          /\ agents'[last'.id].trust_score = agents[last'.id].trust_score
          /\ agents'[last'.id].created_at = agents[last'.id].created_at
          /\ agents'[last'.id].claim_code = agents[last'.id].claim_code
          /\ agents'[last'.id].species_id = agents[last'.id].species_id]_vars

----------------------------------------------------------------------------
(* Diversity dampening: positive events of two peers, of the agent itself
   and of nobody, half an hour apart *)

MaxDampEvents == 4
MaxDampTicks == 2
\* half of the window
DampTickSteps == {1800}
DampEvents == {<<"success", "p1">>, <<"success", "p2">>, <<"invocation", "p1">>,
               <<"failure", "p1">>, <<"success", None>>, <<"success", "a1">>}
DampScores == {NoScore, 900000}

NextDampen ==
    \/ \E score \in DampScores, code \in ClaimCodes : Register("a1", CardScored(score), code)
    \/ \E e \in DampEvents : RecordEvent("a1", e[1], e[2], MaxDampEvents)
    \/ \E d \in DampTickSteps : Tick(d, MaxDampTicks)

SpecDampen == Init /\ [][NextDampen]_vars

\* the score record_event starts from
ScoreBefore(id) ==
    IF id \in DOMAIN scores THEN scores[id]
    ELSE IF id \in DOMAIN agents /\ agents[id].trust_score # NoScore
         THEN agents[id].trust_score
         ELSE initial_score

\* interactions of peer src with id that history h notes less than an hour
\* before t
PriorIn(h, id, src, t) ==
    IF id \notin DOMAIN h THEN 0
    ELSE Cardinality({i \in DOMAIN h[id] : h[id][i][1] = src /\ t - h[id][i][2] < 3600})

PriorInteractions(id, src) == PriorIn(peer_history, id, src, now)

\* w halved k times, rounded toward zero
RECURSIVE HalvedTimes(_, _)
HalvedTimes(w, k) == IF k = 0 THEN w ELSE HalvedTimes(w, k - 1) \div 2

----------------------------------------------------------------------------
(* AgentRegistry._perform_health_checks, the periodic health sweep *)

max_unhealthy_time == 300
MaxHealthTicks == 2
MaxHealthEvents == 1
\* half of max_unhealthy_time, and just past it
HealthTickSteps == {150, 301}

\* a sweep that waits twice as long
StaleAfterTwice(rec, t) ==
    rec.last_health_check # NoTime /\ t - rec.last_health_check > 2 * max_unhealthy_time

\* lines 1087-1091: records never checked are passed over
Stale(rec, t) ==
    rec.last_health_check # NoTime /\ t - rec.last_health_check > max_unhealthy_time

\* AgentCard.set_health_status
SetHealthStatus(rec, status, t) ==
    [rec EXCEPT !.health_status = status, !.last_health_check = t, !.updated_at = t]

Swept(rec, t) == IF Stale(rec, t) THEN SetHealthStatus(rec, "offline", t) ELSE rec

\* every stale record is marked and stored, under the state lock
PerformHealthChecksOp(st, t) ==
    [st EXCEPT
       !.agents = [a \in DOMAIN st.agents |-> Swept(st.agents[a], t)],
       !.storage = [a \in DOMAIN st.storage \cup {x \in DOMAIN st.agents : Stale(st.agents[x], t)} |->
                      IF a \in DOMAIN st.agents /\ Stale(st.agents[a], t)
                      THEN StoredForm(Swept(st.agents[a], t))
                      ELSE st.storage[a]]]

PerformHealthChecks ==
    /\ LocksFree
    /\ Commit(PerformHealthChecksOp(Cur, now))
    /\ last' = Call("perform_health_checks", None, "ok", None)
    /\ UNCHANGED <<remote, calls, peers, powVars, sideVars, now, ticks>>

NextHealth ==
    \/ \E code \in ClaimCodes : Register("a1", CardPlain, code) \/ Register("a2", CardOwned, code)
    \/ \E id \in AgentIds, status \in ReportedStatus : HeartbeatStatus(id, status, MaxHealthEvents)
    \/ Deregister("a1")
    \/ PerformHealthChecks
    \/ \E d \in HealthTickSteps : Tick(d, MaxHealthTicks)

SpecHealth == Init /\ [][NextHealth]_vars

----------------------------------------------------------------------------
(* The two locks: update_agent, record_event with its referral check, flush,
   get_score and heartbeat on a referred agent, in any order *)

NextLocks ==
    \/ \E code \in ClaimCodes : Register("a1", CardReferred, code)
    \/ Update("a1", PatchName, MaxSuccess)
    \/ \E src \in {None, "p1"} : RecordEvent("a1", "success", src, MaxSuccess)
    \/ Flush
    \/ GetScore("a1")
    \/ Heartbeat("a1", MaxSuccess)
    \/ \E d \in {60} : Tick(d, MaxDirTicks)

SpecLocks == Init /\ [][NextLocks]_vars

\* C24: no call of update_agent, record_event, flush, get_score or heartbeat
\* is left waiting for a lock that its own call chain holds: whenever a call
\* has been made it has returned, and neither the TrustManager lock nor the
\* registry state lock is held afterwards
C24_EveryCallReturns ==
    last.op \in {"update", "record_event", "flush", "get_score", "heartbeat"}
    => /\ last.err # "blocked"
       /\ trust_lock = "free"
       /\ state_lock = "free"

----------------------------------------------------------------------------
(* What TrustManager.flush writes *)

\* C25: a flush changes nothing of a flushed agent's record but its
\* trust_score (updated_at included), and leaves the in-memory scores and the
\* event counters as they were
C25_FlushWritesOnlyScore ==
    [][last'.op = "flush"
       => /\ \A a \in DOMAIN pending_updates \cap DOMAIN agents :
                /\ a \in DOMAIN agents'
                /\ agents'[a] = [agents[a] EXCEPT !.trust_score = pending_updates[a]]
          /\ scores' = scores
          /\ event_counts' = event_counts]_vars

\* C26: when a flush has returned, no update is pending, and the record of
\* every registered agent that had one carries the in-memory score
C26_FlushLeavesNothingPending ==
    last.op = "flush"
    => /\ pending_updates = EmptyMap
       /\ \A a \in DOMAIN last.arg \cap DOMAIN agents :
             a \in DOMAIN scores /\ agents[a].trust_score = scores[a]

----------------------------------------------------------------------------
(* The invocation path: the invoke route, AgentRegistry.invoke_agent and the
   trust events they record.  The cards here carry neither concurrency_limit
   nor qps_budget, so the rate limiter admits every call and keeps nothing. *)

MaxInvokes == 3
Callers == {None, "a2"}

\* lines 901-912 and 925-934: the event of a gateway result, which is ok or not
InvokeAgentFound(st, id, ok, t) ==
    IF ok THEN Ok(RecordEventOp(st, id, "success", None, t))
    ELSE Fail(RecordEventOp(st, id, "failure", None, t), "failed")

\* AgentRegistry.invoke_agent
InvokeAgentOp(st, id, ok, t) ==
    IF ~GetAgentOp(st, id).found THEN Fail(GetAgentOp(st, id).st, "ValueError")
    ELSE InvokeAgentFound(GetAgentOp(st, id).st, id, ok, t)

\* the route's `if caller_id: record_event(caller_id, INVOCATION)`
CallerNoted(st, caller, t) ==
    IF caller # None THEN RecordEventOp(st, caller, "invocation", None, t) ELSE st

\* the route after the caller's event: 404 for an unknown agent
InvokeKnown(st, id, ok, t) ==
    IF ~GetAgentOp(st, id).found THEN Fail(GetAgentOp(st, id).st, "404")
    ELSE InvokeAgentOp(GetAgentOp(st, id).st, id, ok, t)

\* POST /agents/{agent_id}/invoke
\* verify_handshake: no headers, or the headers of a registered caller
HandshakeOk(st, caller) == caller = None \/ GetAgentOp(st, caller).found

InvokeRouteOp(st, id, caller, ok, t) ==
    IF ~HandshakeOk(st, caller) THEN Fail(st, "401")
    ELSE InvokeKnown(CallerNoted(st, caller, t), id, ok, t)

\* the score TrustManager holds or would seed for id
ScoreIn(st, id) == IF id \in DOMAIN st.scores THEN st.scores[id] ELSE SeedScore(st, id)

\* `last` notes the caller and what the call added to the agent's score
Invoke(id, caller, ok, limit) ==
    /\ LocksFree
    /\ EventTotal(id) < limit
    /\ caller # None => EventTotal(caller) < limit
    /\ Apply(InvokeRouteOp(Cur, id, caller, ok, now), "invoke", id,
             [caller |-> caller,
              gain |-> ScoreIn(InvokeRouteOp(Cur, id, caller, ok, now).st, id) - ScoreIn(Cur, id)])
    /\ UNCHANGED <<remote, calls, peers, powVars, sideVars, now, ticks>>

NextInvoke ==
    \/ \E code \in ClaimCodes : Register("a1", CardPlain, code) \/ Register("a2", CardOwned, code)
    \/ \E caller \in Callers, ok \in BOOLEAN : Invoke("a1", caller, ok, MaxInvokes)
    \/ \E d \in {1800} : Tick(d, MaxDirTicks)

SpecInvoke == Init /\ [][NextInvoke]_vars

\* C27: of two successful invocations of one agent by the same caller, one
\* right after the other, the second adds at most half of what the first
\* added to the agent's score
C27_RepeatedInvocationHalved ==
    [][(/\ last.op = "invoke" /\ last.err = "ok"
        /\ last'.op = "invoke" /\ last'.err = "ok"
        /\ last'.id = last.id
        /\ last.arg.caller # None
        /\ last'.arg.caller = last.arg.caller)
       => 2 * last'.arg.gain <= last.arg.gain]_vars

----------------------------------------------------------------------------
(* The score after an event without dampening *)

\* C28: a record_event call to which no dampening applies (no source, the
\* agent itself as source, or a weight that is not positive) leaves the
\* in-memory score at the score before plus the weight of the event type,
\* clamped to [0, 1]; so each heartbeat adds 0.00001 to an unclamped score
C28_ScoreIsClampedSum ==
    [][(/\ last'.op = "record_event"
        /\ \/ last'.arg \in {None, last'.id}
           \/ Weight(last'.err) <= 0)
       => /\ last'.id \in DOMAIN scores'
          /\ scores'[last'.id] = Clamp(ScoreBefore(last'.id) + Weight(last'.err))]_vars

----------------------------------------------------------------------------
(* list_agents(sort_by="trust_score") *)

MaxListEvents == 4
SortOrders == {"desc", "asc"}

\* lines 359-362: only a record whose trust_score is None gets one calculated
Unscored(m) == {a \in DOMAIN m : m[a].trust_score = NoScore}

\* the sort key `agent.trust_score or 0.0` with `reverse`; sorted() is
\* stable, so records with equal keys stay in the order of the dict
BeforeByTrust(m, pos, order, b, a) ==
    \/ order = "desc" /\ m[b].trust_score > m[a].trust_score
    \/ order # "desc" /\ m[b].trust_score < m[a].trust_score
    \/ m[b].trust_score = m[a].trust_score /\ pos[b] < pos[a]

SortedByTrust(ids, m, pos, order) ==
    [i \in 1..Cardinality(ids) |->
        CHOOSE a \in ids : Cardinality({b \in ids : BeforeByTrust(m, pos, order, b, a)}) = i - 1]

\* lines 376-377 on the state s1 in which the unscored records have a score
ListByTrustFrom(s1, pos, skip, limit, order) ==
    [st |-> s1, err |-> "ok",
     value |-> Slice(SortedByTrust(DOMAIN s1.agents, s1.agents, pos, order), skip, limit)]

\* list_agents(skip, limit, sort_by="trust_score", order): the ids in order
ListByTrustOp(st, pos, skip, limit, order, t) ==
    ListByTrustFrom(Scored(st, Unscored(st.agents), t), pos, skip, limit, order)

ListByTrust(pos, order) ==
    /\ LocksFree
    /\ Answer(ListByTrustOp(Cur, pos, 0, list_limit, order, now), "list_agents", order)
    /\ UNCHANGED <<remote, calls, peers, powVars, sideVars, now, ticks>>

\* a1 is registered before a2, and `self.agents` iterates in that order
RegistrationOrder == [a \in AgentIds |-> IF a = "a1" THEN 1 ELSE 2]

NextList ==
    \/ \E code \in ClaimCodes : Register("a1", CardPlain, code)
    \/ \E code \in ClaimCodes : "a1" \in DOMAIN agents /\ Register("a2", CardPlain, code)
    \/ \E ev \in {"success", "failure"} : RecordEvent("a1", ev, None, MaxListEvents)
    \/ Flush
    \/ \E order \in SortOrders : ListByTrust(RegistrationOrder, order)
    \/ \E d \in {60} : Tick(d, MaxDirTicks)

SpecList == Init /\ [][NextList]_vars

\* the score calculate_trust_score gives for a now
CurrentScore(a) == GetScoreOp(Cur, a, now).value

\* C29: list_agents sorted by trust score returns the agents in the order of
\* their current TrustManager scores, highest first for desc and lowest
\* first for asc
C29_ListedByCurrentScore ==
    last.op = "list_agents"
    => \A i, j \in DOMAIN last.id :
          i < j => IF last.arg = "desc"
                   THEN CurrentScore(last.id[i]) >= CurrentScore(last.id[j])
                   ELSE CurrentScore(last.id[i]) <= CurrentScore(last.id[j])

----------------------------------------------------------------------------
(* FederationManager.sync_from_seeds: one pull cycle over the known peers *)

\* the configured seed nodes of a manager constructed without any
seeds == {}

\* what client.get gave for one target: a 200 with a payload, another
\* status, or an exception (connection error, timeout)
Pulled(remote_peers, updates) == [kind |-> "ok", peers |-> remote_peers, agents |-> updates]
PullFailed(kind) == [kind |-> kind, peers |-> {}, agents |-> <<>>]
PullOutcomes ==
    {PullFailed("error"), PullFailed("status"),
     Pulled({"peer3", ""}, <<>>),
     Pulled({}, << <<"a1", FedCard(None, "none", 61)>> >>)}

\* the agents of a payload, each in its own try
RECURSIVE MergeAll(_, _, _, _)
MergeAll(st, updates, code, t) ==
    IF updates = <<>> THEN st
    ELSE MergeAll(MergeAgentOp(st, Head(updates)[1], Head(updates)[2], code, t).st,
                  Tail(updates), code, t)

\* _process_sync_data on the cycle's progress acc = [st, peers, log, err]
ProcessSyncDataOp(acc, data, code, t) ==
    [acc EXCEPT !.peers = @ \cup {p \in data.peers : p # ""},
                !.st = MergeAll(@, data.agents, code, t)]

\* lines 58-66
AfterPull(acc, resp, code, t) ==
    IF resp.kind = "ok" THEN ProcessSyncDataOp(acc, resp, code, t) ELSE acc

\* a loop that an exception leaves
StopsOnError(resp) == resp.kind # "error"

\* lines 51 and 67: the try is inside the loop, whatever the request raised
\* is logged and the loop goes on
SurvivesFailure(resp) == TRUE

\* line 58: the request to one target
Contact(acc, target) == [acc EXCEPT !.log = Append(@, target)]

RECURSIVE SyncLoop(_, _, _, _, _)
SyncLoop(acc, todo, responses, code, t) ==
    IF todo = <<>> THEN acc
    ELSE IF SurvivesFailure(responses[Head(todo)])
         THEN SyncLoop(AfterPull(Contact(acc, Head(todo)), responses[Head(todo)], code, t),
                       Tail(todo), responses, code, t)
         ELSE [Contact(acc, Head(todo)) EXCEPT !.err = "raised"]

\* lines 45-47
Targets(ps) == IF ps = {} THEN seeds ELSE ps

\* `order` is list(self.peers), the set in some order
SyncFromSeedsOp(st, ps, order, responses, code, t) ==
    SyncLoop([st |-> st, peers |-> ps, log |-> <<>>, err |-> "ok"], order, responses, code, t)

Synced(r, responses) ==
    /\ Commit(r.st)
    /\ peers' = r.peers
    /\ last' = Call("sync_from_seeds", None, r.err, [responses |-> responses, log |-> r.log])

SyncFromSeeds(order, responses, code) ==
    /\ LocksFree
    /\ Synced(SyncFromSeedsOp(Cur, peers, order, responses, code, now), responses)
    /\ UNCHANGED <<remote, calls, powVars, sideVars, now, ticks>>

\* the orders in which a set can be listed
ListingsOf(S) ==
    {s \in [1..Cardinality(S) -> S] : \A i, j \in 1..Cardinality(S) : s[i] = s[j] => i = j}

NextSync ==
    \/ \E code \in ClaimCodes : Register("a1", CardPlain, code)
    \/ \E ps \in {{"peer1"}, {"peer1", "peer2"}} :
          ProcessSyncData(ps, "a1", FedCard(None, "invalid", 61), "c1", MaxUpdates)
    \/ \E order \in ListingsOf(Targets(peers)), responses \in [Targets(peers) -> PullOutcomes] :
          SyncFromSeeds(order, responses, "c1")
    \/ \E d \in {60} : Tick(d, MaxDirTicks)

SpecSync == Init /\ [][NextSync]_vars

\* C30: one sync_from_seeds cycle requests every peer known at its start
\* once and no other, whatever the requests gave; it ends without an
\* exception; the peers of every payload pulled with status 200 are known
\* afterwards, unknown agents of such a payload are registered, and no known
\* peer is forgotten
C30_CycleContactsEveryPeerOnce ==
    [][last'.op = "sync_from_seeds"
       => /\ last'.err = "ok"
          /\ Len(last'.arg.log) = Cardinality(peers)
          /\ \A p \in peers : \E i \in DOMAIN last'.arg.log : last'.arg.log[i] = p
          /\ \A i \in DOMAIN last'.arg.log : last'.arg.log[i] \in peers
          /\ peers \subseteq peers'
          /\ \A p \in peers :
                last'.arg.responses[p].kind = "ok"
                => /\ (last'.arg.responses[p].peers \ {""}) \subseteq peers'
                   /\ \A i \in DOMAIN last'.arg.responses[p].agents :
                         last'.arg.responses[p].agents[i][1] \in DOMAIN agents']_vars

\* a cycle whose first request failed and whose second brought a new peer
C30_Witness ==
    /\ last.op = "sync_from_seeds"
    /\ Len(last.arg.log) = 2
    /\ last.arg.responses[last.arg.log[1]].kind = "error"
    /\ last.arg.responses[last.arg.log[2]].kind = "ok"
    /\ "peer3" \in last.arg.responses[last.arg.log[2]].peers
    /\ "peer3" \in peers

----------------------------------------------------------------------------
(* Two registry instances on one storage backend.  The state of the model is
   the replica with its storage sync loop; the primary is the other writer
   of the shared storage, and its own map follows the storage. *)

MaxSharedEvents == 1

\* the primary instance as far as its writes to the storage go
PrimaryView == [Cur EXCEPT !.agents = storage]

PrimaryWrote(r, op, id) ==
    /\ storage' = r.st.storage
    /\ last' = Call(op, id, r.err, None)
    /\ UNCHANGED <<remote, calls, agents, skill_index, protocol_index, tag_index, search_cache,
                   state_lock, scores, pending_updates, event_counts, peer_history,
                   trust_lock, bonus_tasks, peers, powVars, sideVars, now, ticks>>

\* register_agent on the primary: line 236 writes the record to the storage
PrimaryRegister(id, card, code) ==
    PrimaryWrote(RegisterAgentOp(PrimaryView, id, card, code, now), "primary_register", id)

\* deregister_agent on the primary: line 313 deletes it from the storage
PrimaryDeregister(id) ==
    PrimaryWrote(DeregisterAgentOp(PrimaryView, id), "primary_deregister", id)

NextShared ==
    \/ PrimaryRegister("a1", CardPlain, "c1")
    \/ PrimaryDeregister("a1")
    \/ StorageSync
    \/ Heartbeat("a1", MaxSharedEvents)
    \/ \E d \in {60} : Tick(d, MaxDirTicks)

\* the replica's _storage_sync_loop keeps running
SpecShared == Init /\ [][NextShared]_vars /\ WF_vars(StorageSync)

\* replica.discover_agents(skill_name="s1", healthy_only=False) returns a
Discoverable(a) ==
    \E i \in DOMAIN DiscoverOp(Cur, Filter("s1", None, {}, FALSE, NoScore, 0, 50), RegistrationOrder, now).value :
        DiscoverOp(Cur, Filter("s1", None, {}, FALSE, NoScore, 0, 50), RegistrationOrder, now).value[i] = a

\* C31: an agent registered on the primary is eventually discoverable on the
\* replica unless the primary deregisters it, and an agent deregistered on
\* the primary eventually stops being discoverable on the replica unless the
\* primary registers it again
C31_SharedStorageConverges ==
    /\ (last.op = "primary_register" /\ last.err = "ok")
          ~> (Discoverable("a1") \/ (last.op = "primary_deregister" /\ last.err = "ok"))
    /\ (last.op = "primary_deregister" /\ last.err = "ok")
          ~> (~Discoverable("a1") \/ (last.op = "primary_register" /\ last.err = "ok"))

----------------------------------------------------------------------------
(* What update_agent leaves alone *)

\* C32: update_agent on a known agent keeps the record under its id with its
\* created_at, owner_id, claim_code and referrer_id; every field the patch
\* does not carry keeps its value, updated_at aside; and species_id is kept
\* when the patch carries no skills
C32_UpdateKeepsTheRest ==
    [][(last'.op = "update" /\ last'.id \in DOMAIN agents)
       => /\ last'.id \in DOMAIN agents'
          /\ \A f \in {"created_at", "owner_id", "claim_code", "referrer_id"} :
                agents'[last'.id][f] = agents[last'.id][f]
          /\ \A f \in DOMAIN agents[last'.id] \ (last'.arg.set \cup {"updated_at"}) :
                (f = "skills_parsed" /\ "skills" \in last'.arg.set)
                \/ agents'[last'.id][f] = agents[last'.id][f]
          /\ "skills" \notin last'.arg.set
                => agents'[last'.id].species_id = agents[last'.id].species_id]_vars

\* an owned, tagged agent has been renamed by an update
C32_Witness ==
    /\ last.op = "update" /\ last.err = "ok" /\ last.arg = PatchName
    /\ last.id \in DOMAIN agents
    /\ agents[last.id].name = "n2"
    /\ agents[last.id].owner_id = "u1"
    /\ agents[last.id].tags = {"t1"}

----------------------------------------------------------------------------
(* Lazy decay on read against the decay loop *)

MaxLazyTicks == 3
\* persisted scores: 0, 0.3, 0.505, 0.51, 0.8, 1
PersistedScores == {0, 300000, 505000, 510000, 800000, 1000000}

NextDecay ==
    \/ \E s \in PersistedScores, code \in ClaimCodes : Register("a1", CardScored(s), code)
    \/ GetScore("a1")
    \/ DecayTick
    \/ \E d \in DecayTickSteps : Tick(d, MaxLazyTicks)

SpecDecay == Init /\ [][NextDecay]_vars

\* the step of the decay loop applied n times to a score
RECURSIVE Ticked(_, _)
Ticked(score, n) == IF n = 0 THEN score ELSE Ticked(DecayStep(score), n - 1)

\* whole decay intervals between a record's updated_at and now
IntervalsSince(rec) == (now - rec.updated_at) \div 60

\* C33: for a registered agent that is not in the working set, get_score
\* returns what n steps of the decay loop make of the persisted score, n
\* being the whole decay intervals since the record's updated_at (up to the
\* rounding of n fixed-point steps)
C33_LazyEqualsTicked ==
    [][(/\ last'.op = "get_score"
        /\ last'.id \in DOMAIN agents
        /\ last'.id \notin DOMAIN scores
        /\ agents[last'.id].trust_score # NoScore)
       => Abs(last'.arg - Ticked(agents[last'.id].trust_score, IntervalsSince(agents[last'.id])))
             <= IntervalsSince(agents[last'.id])]_vars

----------------------------------------------------------------------------
(* discover_agents beside register, update and deregister *)
(* The loop of lines 436-453 iterates the index's own set when one filter is
   given and awaits calculate_trust_score in its body; get_score waits there
   for TrustManager._lock, which record_event holds across its storage reads.
   The writers need the state lock only and run meanwhile. *)

MaxScanEvents == 2

\* the set object the loop iterates, after a writer has left the indexes as
\* in `st`: discard and add act on the object, an emptied set is deleted from
\* the index and the iterator keeps the empty object
Followed(c, st) ==
    [c EXCEPT !.obj = IF c.attached THEN IndexGet(st.skill_index, c.skill) ELSE {},
              !.attached = c.attached /\ c.skill \in DOMAIN st.skill_index,
              !.in_map = c.in_map \cup DOMAIN st.agents]

Tracked(cs, st) ==
    IF "discover" \in DOMAIN cs THEN Put(cs, "discover", Followed(cs["discover"], st)) ELSE cs

\* a writer that runs while a discover_agents call may be suspended
Beside(r, op, id, arg) ==
    /\ LocksFree
    /\ Apply(r, op, id, arg)
    /\ calls' = Tracked(calls, r.st)
    /\ UNCHANGED <<remote, peers, powVars, sideVars, now, ticks>>

RegisterBeside(id, card, code) ==
    Beside(RegisterAgentOp(Cur, id, card, code, now), "register", id, card)

UpdateBeside(id, patch) ==
    /\ EventTotal(id) < MaxScanEvents
    /\ Beside(UpdateAgentOp(Cur, id, patch, now), "update", id, patch)

DeregisterBeside(id) ==
    Beside(DeregisterAgentOp(Cur, id), "deregister", id, None)

\* the ids the iterator has still to yield; one without a record is passed
\* over by the `continue` of line 439
Unvisited(c, m) == {a \in c.obj \ c.visited : a \in DOMAIN m}

\* next() of the set iterator: RuntimeError ("Set changed size during
\* iteration") when the set has not the size it had when the loop began
ScanNext(c, m) ==
    IF Cardinality(c.obj) # c.size THEN "RuntimeError"
    ELSE IF Unvisited(c, m) = {} THEN "done" ELSE "more"

\* the loop suspended at the await of line 442 with `id` in hand
Suspended(c, id) == [c EXCEPT !.cur = id, !.visited = c.visited \cup {id}]

\* discover_agents(skill_name=skill, healthy_only=False) up to its first await
DiscoverStart(skill) ==
    /\ "discover" \notin DOMAIN calls
    /\ LET c == [skill |-> skill, obj |-> IndexGet(skill_index, skill), attached |-> TRUE,
                 size |-> Cardinality(IndexGet(skill_index, skill)), visited |-> {},
                 cur |-> None, found |-> {}, in_map |-> DOMAIN agents]
       IN  IF ScanNext(c, agents) = "more"
           THEN \E id \in Unvisited(c, agents) :
                  /\ calls' = Put(calls, "discover", Suspended(c, id))
                  /\ last' = Call("discover_start", id, "ok", skill)
           ELSE /\ calls' = calls
                /\ last' = Call("discover", {}, "ok", DOMAIN agents)
    /\ UNCHANGED <<remote, regVars, peers, powVars, sideVars, now, ticks>>

\* line 442 for the id in hand: the score, written to the record when the
\* record is still the map's
ScoredOne(st, id, t) ==
    IF id \in DOMAIN st.agents THEN Scored(st, {id}, t) ELSE GetScoreOp(st, id, t).st

\* the call ends: with the ids found, or with the iterator's error
DiscoverEnds(c, outcome) ==
    /\ calls' = Drop(calls, "discover")
    /\ last' = Call("discover", c.found, IF outcome = "done" THEN "ok" ELSE outcome, c.in_map)

\* the loop from the await of line 442 to the next one, or to the return
DiscoverResume ==
    /\ "discover" \in DOMAIN calls
    /\ LocksFree
    /\ Commit(ScoredOne(Cur, calls["discover"].cur, now))
    /\ LET c == [calls["discover"] EXCEPT !.found = @ \cup {calls["discover"].cur}]
       IN  IF ScanNext(c, agents) = "more"
           THEN \E id \in Unvisited(c, agents) :
                  /\ calls' = Put(calls, "discover", Suspended(c, id))
                  /\ last' = Call("discover_resume", id, "ok", c.skill)
           ELSE DiscoverEnds(c, ScanNext(c, agents))
    /\ UNCHANGED <<remote, peers, powVars, sideVars, now, ticks>>

NextScan ==
    \/ \E id \in AgentIds, code \in {"c1"} : RegisterBeside(id, CardPlain, code)
    \/ UpdateBeside("a1", PatchTags)
    \/ \E id \in AgentIds : DeregisterBeside(id)
    \/ DiscoverStart("s1")
    \/ DiscoverResume

SpecScan == Init /\ [][NextScan]_vars

\* C34: a discover_agents call that runs beside register, update and
\* deregister calls ends without an error and returns only agents that were
\* in the map at some point during the call
C34_DiscoverCompletes ==
    last.op = "discover" => last.err = "ok" /\ last.id \subseteq last.arg

----------------------------------------------------------------------------
(* heartbeat beside deregister_agent *)
(* heartbeat looks the card up (line 700) before it asks for the state lock
   (line 705); a deregister_agent call that waits for the lock ahead of it
   runs in between. *)

MaxGoneEvents == 2

\* lines 705-729 on the card object found at line 700: the object is
\* stamped and stored whether the map still holds it or not
HeartbeatStamped(st, id, card, status, t) ==
    RecordEventOp(
        [st EXCEPT !.agents = IF id \in DOMAIN @ THEN Put(@, id, Beat(@[id], status, t)) ELSE @,
                   !.storage = Put(@, id, StoredForm(Beat(IF id \in DOMAIN st.agents THEN st.agents[id] ELSE card, status, t)))],
        id, "heartbeat", None, t)

\* heartbeat to the `async with self._state_lock` of line 705
HeartbeatLookup(id) ==
    /\ LocksFree
    /\ "heartbeat" \notin DOMAIN calls
    /\ Commit(GetAgentOp(Cur, id).st)
    /\ IF GetAgentOp(Cur, id).found
       THEN /\ calls' = Put(calls, "heartbeat", [id |-> id, card |-> GetAgentOp(Cur, id).st.agents[id]])
            /\ last' = Call("heartbeat_lookup", id, "ok", None)
       ELSE /\ calls' = calls
            /\ last' = Call("heartbeat", id, "ValueError", None)
    /\ UNCHANGED <<remote, peers, powVars, sideVars, now, ticks>>

\* heartbeat from line 705 on
HeartbeatStamp ==
    /\ LocksFree
    /\ "heartbeat" \in DOMAIN calls
    /\ EventTotal(calls["heartbeat"].id) < MaxGoneEvents
    /\ Commit(HeartbeatStamped(Cur, calls["heartbeat"].id, calls["heartbeat"].card, "healthy", now))
    /\ calls' = Drop(calls, "heartbeat")
    /\ last' = Call("heartbeat", calls["heartbeat"].id, "ok", None)
    /\ UNCHANGED <<remote, peers, powVars, sideVars, now, ticks>>

\* get_agent as a call of its own
GetAgent(id) ==
    /\ LocksFree
    /\ Commit(GetAgentOp(Cur, id).st)
    /\ last' = Call("get_agent", id, IF GetAgentOp(Cur, id).found THEN "ok" ELSE "None", None)
    /\ UNCHANGED <<remote, calls, peers, powVars, sideVars, now, ticks>>

\* a1 is registered once, as the first call
NextGone ==
    \/ last.op = "init" /\ Register("a1", CardPlain, "c1")
    \/ Deregister("a1")
    \/ HeartbeatLookup("a1")
    \/ HeartbeatStamp
    \/ GetAgent("a1")
    \/ RecordEvent("a1", "success", None, MaxGoneEvents)
    \/ Flush
    \/ \E d \in {60} : Tick(d, MaxDirTicks)

SpecGone == Init /\ [][NextGone]_vars

\* `id` is in neither the map, nor an index, nor the storage
Gone(id) ==
    /\ id \notin DOMAIN agents
    /\ id \notin DOMAIN storage
    /\ \A k \in DOMAIN skill_index : id \notin skill_index[k]
    /\ \A k \in DOMAIN protocol_index : id \notin protocol_index[k]
    /\ \A k \in DOMAIN tag_index : id \notin tag_index[k]

\* C35: once deregister_agent(a1) has returned true, a1 is in neither the
\* map, nor an index, nor the storage, and no step other than a
\* register_agent brings it back: whatever heartbeat, get_agent, record_event
\* and flush calls run beside it, a1 gone before the step is gone after it
C35_DeregisteredStaysGone ==
    [][(Gone("a1") /\ last.op # "init" /\ last'.op # "register") => Gone("a1")']_vars

----------------------------------------------------------------------------
(* The limiter while update_agent changes concurrency_limit *)
(* invoke_agent hands the map's card object to limiter.limit; update_agent
   sets the fields of that same object, so _release reads the limit as it is
   at the exit. *)

\* AgentCardUpdate.concurrency_limit: any int; None means no change
NewLimits == {0, 1, 2}

\* update_agent(concurrency_limit=cl), as far as the limiter reads the card
Relimit(id, cl) ==
    /\ id \in DOMAIN limits
    /\ limits[id].concurrency_limit # cl
    /\ limits' = [limits EXCEPT ![id].concurrency_limit = cl]
    /\ last' = Call("update", id, "ok", cl)
    /\ UNCHANGED <<remote, calls, regVars, peers, powVars, negVars, concurrency, qps_state, inflight, now, ticks>>

NextRelimit ==
    \/ \E id \in LimitedIds, cl \in ConcurrencyLimits : Configure(id, cl, NoLimit)
    \/ \E id \in LimitedIds : Enter(id)
    \/ \E id \in LimitedIds : Exit(id)
    \/ \E id \in LimitedIds, cl \in NewLimits : Relimit(id, cl)

SpecRelimit == Init /\ [][NextRelimit]_vars

\* C36: for every agent with a concurrency limit in force, the limiter's
\* counter equals the number of invocations inside the limit context, also
\* after update_agent has set, raised, lowered or zeroed the limit while
\* invocations were inside
C36_CounterIsInflight ==
    \A id \in DOMAIN limits :
        HasConcurrencyLimit(limits[id]) => CountAt(concurrency, id) = inflight[id]

----------------------------------------------------------------------------
(* Two nodes that pull from each other *)
(* `remote` is the second node. A pull is GET /federation/pull on the serving
   node (get_local_updates with since = 0, as sync_from_seeds sends no
   `since`) and _process_sync_data on the pulling node, whose stamps are
   taken after the serving node's. *)

MaxPeerTicks == 2
MaxPeerPulls == 8
MaxPeerEvents == 1

\* the i-th of the served ids, in the order of the serving node's list
NthServed(ids, i) ==
    CHOOSE a \in ids : Cardinality({b \in ids : RegistrationOrder[b] < RegistrationOrder[a]}) = i - 1

\* the agents of the payload: each served record as the JSON body carries it
Payload(st, ids) == [i \in 1..Cardinality(ids) |-> <<NthServed(ids, i), StoredForm(st.agents[NthServed(ids, i)])>>]

\* what the serving node answers: [st, value] of get_local_updates(0)
Served(from, t) == GetLocalUpdatesOp(from, RegistrationOrder, 0, t)

\* one pull at time t: both nodes afterwards
PullOp(from, to, code, t) ==
    [from |-> Served(from, t).st,
     to |-> MergeAll(to, Payload(Served(from, t).st, Served(from, t).value), code, t)]

\* the clock moves with every pull that changes a node
PullTakesEffect(here, there, dir) ==
    /\ (here # Cur \/ there # remote) => now < 1 + MaxPeerTicks + MaxPeerPulls
    /\ Commit(here)
    /\ remote' = there
    /\ now' = IF here # Cur \/ there # remote THEN now + 1 ELSE now
    /\ last' = Call("pull", dir, IF here # Cur \/ there # remote THEN "changed" ELSE "same", None)
    /\ UNCHANGED <<calls, peers, powVars, sideVars, ticks>>

\* this node's sync_from_seeds with the second node as its peer
PullHere ==
    /\ LocksFree
    /\ \E r \in {PullOp(remote, Cur, "c2", now + 1)} : PullTakesEffect(r.to, r.from, "here")

\* the second node's sync_from_seeds with this node as its peer
PullThere ==
    /\ LocksFree
    /\ \E r \in {PullOp(Cur, remote, "c3", now + 1)} : PullTakesEffect(r.from, r.to, "there")

NextPeers ==
    \/ \E card \in {CardPlain, CardOwned} : Register("a1", card, "c1")
    \/ Update("a1", PatchName, MaxPeerEvents)
    \/ PullHere
    \/ PullThere
    \/ \E d \in {1} : Tick(d, MaxPeerTicks)

\* the clock bound has stopped the pulls that change a node
PullsEnded == now >= 1 + MaxPeerTicks + MaxPeerPulls

\* start_background_sync runs sync_from_seeds on each node for ever: either
\* node pulls again and again (a pull is enabled in every state short of the
\* clock bound, so this is weak fairness of PullHere and of PullThere)
SpecPeers ==
    /\ Init /\ [][NextPeers]_vars
    /\ []<>((last.op = "pull" /\ last.id = "here") \/ PullsEnded)
    /\ []<>((last.op = "pull" /\ last.id = "there") \/ PullsEnded)

\* a pull at time t, in either direction, leaves both nodes as they are
SettledAt(t) ==
    /\ PullOp(remote, Cur, "c2", t) = [from |-> remote, to |-> Cur]
    /\ PullOp(Cur, remote, "c3", t) = [from |-> Cur, to |-> remote]

Settled == SettledAt(now + 1) /\ SettledAt(now + 1 + decay_interval)

----------------------------------------------------------------------------
(* process_round that raises *)

\* C38: a process_round call that raises leaves the session's status,
\* history, commitment and expires_at as they were, and expires_at is changed
\* only by a process_round call on that session that succeeds
C38_FailedRoundChangesNothing ==
    [][/\ (last'.op = "process_round" /\ last'.err # "ok") => sessions' = sessions
       /\ \A sid \in DOMAIN sessions \cap DOMAIN sessions' :
             sessions'[sid].expires_at # sessions[sid].expires_at
             => last'.op = "process_round" /\ last'.id = sid /\ last'.err = "ok"]_vars

----------------------------------------------------------------------------
(* An agent that sends no heartbeat *)

MaxWatchTicks == 3
MaxWatchEvents == 1

\* a registration payload with "health_status": "healthy"
CardHealthy == [CardPlain EXCEPT !.health_status = "healthy"]

\* lines 756-760 on the card found: a stale record is marked unhealthy and
\* stored, one never checked is left alone
CheckFound(st, id, t) ==
    IF Stale(st.agents[id], t)
    THEN [st EXCEPT !.agents = Put(@, id, SetHealthStatus(@[id], "unhealthy", t)),
                    !.storage = Put(@, id, StoredForm(SetHealthStatus(st.agents[id], "unhealthy", t)))]
    ELSE st

\* check_agent_health: [st, value], the value being the status returned
CheckAgentHealthOp(st, id, t) ==
    IF ~GetAgentOp(st, id).found THEN [st |-> GetAgentOp(st, id).st, value |-> "unknown"]
    ELSE [st |-> CheckFound(GetAgentOp(st, id).st, id, t),
          value |-> CheckFound(GetAgentOp(st, id).st, id, t).agents[id].health_status]

CheckAgentHealth(id) ==
    /\ LocksFree
    /\ Commit(CheckAgentHealthOp(Cur, id, now).st)
    /\ last' = Call("check_agent_health", id, CheckAgentHealthOp(Cur, id, now).value, None)
    /\ UNCHANGED <<remote, calls, peers, powVars, sideVars, now, ticks>>

\* time passes
Elapse == \E d \in HealthTickSteps : Tick(d, MaxWatchTicks)

\* a1 registers as healthy and never sends a heartbeat; a2 sends some
NextWatch ==
    \/ \E id \in AgentIds, code \in ClaimCodes : Register(id, CardHealthy, code)
    \/ HeartbeatStatus("a2", "healthy", MaxWatchEvents)
    \/ PerformHealthChecks
    \/ \E id \in AgentIds : CheckAgentHealth(id)
    \/ Elapse

\* _health_check_loop runs the sweep for ever
SpecWatch == Init /\ [][NextWatch]_vars /\ WF_vars(PerformHealthChecks) /\ WF_vars(Elapse)

\* C39: an agent that is registered and sends no heartbeat is eventually
\* marked offline, whatever sweeps and check_agent_health calls run
C39_SilentAgentGoesOffline ==
    ("a1" \in DOMAIN agents) ~> ("a1" \in DOMAIN agents /\ agents["a1"].health_status = "offline")

----------------------------------------------------------------------------
(* What two directories that differ in their claim codes serve *)
(* `remote` is a second directory that receives the same calls at the same
   times; only the claim codes that register_agent draws differ. *)

MaxTwinTicks == 2
MaxTwinEvents == 1
\* the codes the two directories draw at one registration
TwinCodes == {<<"c1", "c2">>, <<"c3", "c4">>}

\* AgentCard.to_dict: model_dump without _PRIVATE_FIELDS
ToDict(rec) == [f \in DOMAIN rec \ {"claim_code"} |-> rec[f]]

\* the body of GET /federation/pull: FastAPI serialises the FederationUpdate
\* that get_local_updates returns, every field of every AgentCard
PullBody(st, t) == Payload(Served(st, t).st, Served(st, t).value)

\* the same call on both directories
Twin(here, there, op, id, arg) ==
    /\ LocksFree
    /\ Commit(here)
    /\ remote' = there
    /\ last' = Call(op, id, "ok", arg)
    /\ UNCHANGED <<calls, peers, powVars, sideVars, now, ticks>>

TwinRegister(id, card, code, other) ==
    /\ code # other
    /\ Twin(RegisterAgentOp(Cur, id, card, code, now).st,
            RegisterAgentOp(remote, id, card, other, now).st, "register", id, card)

TwinUpdate(id, patch) ==
    /\ EventTotal(id) < MaxTwinEvents
    /\ Twin(UpdateAgentOp(Cur, id, patch, now).st, UpdateAgentOp(remote, id, patch, now).st,
            "update", id, patch)

\* GET /agents/{id} on both: `agent.to_dict()`; the two bodies are recorded
TwinGetAgent(id) ==
    /\ id \in DOMAIN agents /\ id \in DOMAIN remote.agents
    /\ Twin(Cur, remote, "get_agent_route", ToDict(agents[id]), ToDict(remote.agents[id]))

\* GET /federation/pull on both; the two bodies are recorded
TwinPull ==
    Twin(Served(Cur, now).st, Served(remote, now).st, "pull_updates", PullBody(Cur, now), PullBody(remote, now))

NextTwins ==
    \/ \E id \in AgentIds, card \in {CardPlain, CardOwned}, codes \in TwinCodes :
          TwinRegister(id, card, codes[1], codes[2])
    \/ \E id \in AgentIds : TwinUpdate(id, PatchName)
    \/ \E id \in AgentIds : TwinGetAgent(id)
    \/ TwinPull
    \/ \E d \in {60} : Tick(d, MaxTwinTicks)

SpecTwins == Init /\ [][NextTwins]_vars

\* C40: no served body holds a claim code, neither the public form of a
\* record nor the federation pull payload, and two directories that differ
\* only in their claim codes serve the same bodies
C40_ClaimCodeNeverServed ==
    /\ last.op = "get_agent_route" => "claim_code" \notin DOMAIN last.id /\ last.id = last.arg
    /\ last.op = "pull_updates"
       => /\ \A i \in DOMAIN last.id : last.id[i][2].claim_code = None
          /\ last.id = last.arg

====
